---- MODULE Spec2Model ----
(***************************************************************************)
(* KnowledgeSync (src/knowledgesync.py): the entry model, the topic graph, *)
(* the store engine and the two merge forms, as a state machine over live  *)
(* stores that may share entry, node and edge objects by reference.        *)
(*                                                                         *)
(* Conventions                                                             *)
(*  - Python objects that are shared by reference (KnowledgeEntry objects, *)
(*    node metadata dicts, edge dicts) live in heaps (heap, nheap, eheap); *)
(*    a store holds references into them.  Objects no store refers to are  *)
(*    dropped from the heaps.                                              *)
(*  - Timestamps are integers read from the clock `now`; several calls can *)
(*    read the same instant.  None is -1.                                  *)
(*  - Confidence and weights are in tenths (1.0 is 10).                    *)
(*  - An export travels in its serialized (JSON) form, as the command line *)
(*    does it (json.dump / json.load around export_for_sync and            *)
(*    import_from_sync): `payload` holds values, not references.  Only     *)
(*    SpecAlias hands the dict export_for_sync returns straight to         *)
(*    import_from_sync; `shared` then says which entries have one metadata *)
(*    dict between them.                                                   *)
(*  - A dict's iteration order is not modelled where the loop body touches *)
(*    one key per iteration and the result does not depend on the order.   *)
(*  - `last` records the most recent call and what it returned, so that a  *)
(*    property can say which call a step made.                             *)
(*  - A callback is a name; a call of it records the topic, the name, the  *)
(*    id of the entry and how the call ended (`last.notified`).            *)
(*  - `unsubscribed` remembers which callbacks unsubscribe has removed, so  *)
(*    that a property can speak of the calls made after it.                *)
(*  - The callback cb2 raises, the callback cb3 unsubscribes itself from   *)
(*    the topic x, every other callback returns and changes nothing.       *)
(*                                                                         *)
(* Specifications                                                          *)
(*  - Spec: entries written and rewritten in two stores, merged both ways  *)
(*    in both forms.                                                       *)
(*  - SpecGraph: one graph built by add_node, add_edge and the store's add.*)
(*  - SpecTopics: every store operation on entries that carry a topic.     *)
(*  - SpecGraphMerge: merges of stores whose graphs have edges.            *)
(*  - SpecConv: two stores that start from one snapshot of a third, part   *)
(*    ways and merge each other.                                           *)
(*  - SpecAdd: one store with subscribers; add with valid and invalid      *)
(*    content and with none, two or three topics.                          *)
(*  - SpecEdit: one entry updated field by field, and an unknown id.       *)
(*  - SpecGrow: the calls of SpecTopics on entries with two topics.        *)
(*  - SpecLog: one store merging another in more than a hundred times.     *)
(*  - SpecClear: a store filled and cleared, with and without confirmation.*)
(*  - SpecSubs: callbacks, one of which raises, subscribing, unsubscribing *)
(*    and being notified of an add and of updates.                         *)
(*  - SpecRelated: one graph built edge by edge and asked for the topics   *)
(*    related to a topic.                                                  *)
(*  - SpecQuery: a store of entries that differ in every field a query     *)
(*    filters by, queried while the clock moves on.                        *)
(*  - SpecSelf: callbacks for one topic, one of which unsubscribes itself  *)
(*    while it is notified.                                                *)
(*  - SpecExpiry: adds with expires_in_days left out, 0 and 1, and the     *)
(*    cleanup of the expired entries.                                      *)
(*  - SpecConf: adds and updates with confidences out of range, merged in  *)
(*    both forms.                                                          *)
(*  - SpecAlias: an entry taken by sync and by import_from_sync of a live  *)
(*    export, and changed in the store it came from.                       *)
(***************************************************************************)
EXTENDS Integers, Sequences, FiniteSets, TLC

VARIABLES
    now,        \* the wall clock read by datetime.now()
    heap,       \* KnowledgeEntry objects: reference -> fields
    entries,    \* per store: entry_id -> reference (self.entries)
    nheap,      \* node metadata dicts: reference -> [created, references]
    nodes,      \* per store: topic -> reference (self.graph.nodes)
    eheap,      \* edge dicts: reference -> [source, target, relation, weight, created]
    edges,      \* per store: sequence of references (self.graph.edges)
    sync_log,   \* per store: self._sync_log
    payload,    \* the most recent export handed to the caller, serialized
    last,       \* the most recent call: its name, arguments and result
    subscriptions,  \* per store: topic -> sequence of callbacks (self.subscriptions)
    unsubscribed,   \* per store: the <<topic, callback>> that unsubscribe has
                    \* removed and subscribe has not registered since
    shared      \* pairs of places <<store, entry_id>> whose entries are two
                \* objects with one metadata dict between them

vars == <<now, heap, entries, nheap, nodes, eheap, edges, sync_log, payload, last, subscriptions, unsubscribed, shared>>

---------------------------------------------------------------------------
\* Bounds of the model.

\* the clock runs from 0 to MaxTime
MaxTime == 1
\* at most MaxIds distinct entry ids exist at once (stores and payload)
MaxIds == 2
\* a node's reference count is driven up to MaxRefs
MaxRefs == 4
\* an edge list is driven up to MaxEdges edges
MaxEdges == 3
\* the sync logs are driven up to MaxLog records in all
MaxLog == 1

---------------------------------------------------------------------------
\* Values.

None == -1
NoId == <<>>
JsonNull == <<"null", 0>>
ConfMax == 10
DefaultWeight == 10

Stores == {"A", "B", "C"}

Agent(s) ==
    CASE s = "A" -> "AGENT1"
      [] s = "B" -> "AGENT2"
      [] s = "C" -> "AGENT3"

CATEGORIES ==
    {"DECISION", "FINDING", "PROBLEM", "SOLUTION", "TODO", "REFERENCE",
     "CONFIG", "RELATIONSHIP", "FACT", "INSIGHT"}

Min(a, b) == IF a < b THEN a ELSE b
Max(a, b) == IF a > b THEN a ELSE b

\* str.upper(), str.lower() and str.strip() on the strings the model uses
Upper(x) ==
    CASE x = "agent1"  -> "AGENT1"
      [] x = "agent2"  -> "AGENT2"
      [] x = "fact"    -> "FACT"
      [] x = "finding" -> "FINDING"
      [] x = "Todo"    -> "TODO"
      [] x = "bogus"   -> "BOGUS"
      [] OTHER         -> x

Lower(x) ==
    CASE x = "A" -> "a"
      [] x = "B" -> "b"
      [] x = "C" -> "c"
      [] x = "X" -> "x"
      [] x = "Find"    -> "find"
      [] x = "FINDING" -> "finding"
      [] x = "FACT"    -> "fact"
      [] OTHER   -> x

Strip(x) ==
    CASE x = " c1 " -> "c1"
      [] x = " c2 " -> "c2"
      [] x = "  "   -> ""
      [] OTHER      -> x

\* datetime.isoformat() and datetime.fromisoformat()
IsoFormat(t) == <<"iso", t>>
FromIsoFormat(x) == x[2]

\* hashlib.sha256(f"{content}:{source}:{created}").hexdigest()[:16], taken
\* to be injective on the inputs of the model
HashNoContent(content, source, created) == <<"", source, created>>
Hash(content, source, created) == <<content, source, created>>

\* function helpers
Ext(f, k, v) == [x \in DOMAIN f \cup {k} |-> IF x = k THEN v ELSE f[x]]
Restrict(f, S) == [x \in S |-> f[x]]
MergeReplace(f, g) == g
Merge(f, g) == [x \in DOMAIN f \cup DOMAIN g |-> IF x \in DOMAIN g THEN g[x] ELSE f[x]]
EmptyMap == [x \in {} |-> 0]
MinOf(S) == CHOOSE x \in S : \A y \in S : x <= y

\* a set as a sequence, in an order fixed by the set
RECURSIVE SeqOf(_)
SeqOf(S) ==
    IF S = {} THEN <<>>
    ELSE LET x == CHOOSE y \in S : TRUE IN <<x>> \o SeqOf(S \ {x})

\* a reference no object of the heap has yet
Fresh(h) == <<"new", Cardinality({r \in DOMAIN h : r[1] = "new"})>>

---------------------------------------------------------------------------
\* Entry model.

\* a clamp that bounds the confidence from above only
ClampAbove(confidence) == Min(ConfMax, confidence)

\* "min(1.0, max(0.0, confidence))", in tenths
Clamp(confidence) == Min(ConfMax, Max(0, confidence))

\* KnowledgeEntry.__init__; clock is what datetime.now() returns
KnowledgeEntry(content, source, category, topics, confidence, expires, references, metadata, entry_id, created, updated, clock) ==
    LET c == IF created = None THEN clock ELSE created
    IN  [ content    |-> content,
          source     |-> Upper(source),
          category   |-> IF Upper(category) \in CATEGORIES THEN Upper(category) ELSE "FACT",
          topics     |-> [i \in 1..Len(topics) |-> Lower(topics[i])],
          confidence |-> Clamp(confidence),
          created    |-> c,
          updated    |-> IF updated = None THEN c ELSE updated,
          expires    |-> expires,
          references |-> references,
          metadata   |-> metadata,
          entry_id   |-> IF entry_id # NoId THEN entry_id ELSE Hash(content, source, c) ]

\* KnowledgeEntry.to_dict
ToDict(e) ==
    [ entry_id   |-> e.entry_id,
      content    |-> e.content,
      source     |-> e.source,
      category   |-> e.category,
      topics     |-> e.topics,
      confidence |-> e.confidence,
      created    |-> IsoFormat(e.created),
      updated    |-> IsoFormat(e.updated),
      expires    |-> IF e.expires # None THEN IsoFormat(e.expires) ELSE JsonNull,
      references |-> e.references,
      metadata   |-> e.metadata ]

\* KnowledgeEntry.from_dict; the records of an export carry every key
FromDictDerivedId(d, clock) ==
    KnowledgeEntry(d.content, d.source, d.category, d.topics, d.confidence,
                   IF d.expires # JsonNull THEN FromIsoFormat(d.expires) ELSE None,
                   d.references, d.metadata, NoId,
                   FromIsoFormat(d.created), FromIsoFormat(d.updated), clock)
FromDict(d, clock) ==
    KnowledgeEntry(d.content, d.source, d.category, d.topics, d.confidence,
                   IF d.expires # JsonNull THEN FromIsoFormat(d.expires) ELSE None,
                   d.references, d.metadata, d.entry_id,
                   FromIsoFormat(d.created), FromIsoFormat(d.updated), clock)

\* KnowledgeEntry.is_expired
IsExpired(e, clock) == IF e.expires = None THEN FALSE ELSE clock > e.expires

---------------------------------------------------------------------------
\* Topic graph.  A graph value G is [nodes, edges, nheap, eheap]: one
\* store's node map and edge list together with the two shared heaps.

\* the test of the loop in add_edge and in sync: same source, same target
EdgeMatches(e, source, target) == e.source = source /\ e.target = target

\* an add_node that counts a reference only when it creates the node
AddNodeOnce(G, topic0, clock) ==
    LET topic == Lower(topic0)
        r     == Fresh(G.nheap)
    IN  IF topic \in DOMAIN G.nodes THEN G
        ELSE [G EXCEPT !.nodes = Ext(@, topic, r),
                       !.nheap = Ext(@, r, [created |-> IsoFormat(clock), references |-> 1])]

\* KnowledgeGraph.add_node (called without metadata)
AddNode(G, topic0, clock) ==
    LET topic  == Lower(topic0)
        absent == topic \notin DOMAIN G.nodes
        r      == IF absent THEN Fresh(G.nheap) ELSE G.nodes[topic]
        nodes1 == IF absent THEN Ext(G.nodes, topic, r) ELSE G.nodes
        nheap1 == IF absent
                  THEN Ext(G.nheap, r, [created |-> IsoFormat(clock), references |-> 0])
                  ELSE G.nheap
    IN  [G EXCEPT !.nodes = nodes1,
                  !.nheap = [nheap1 EXCEPT ![r].references = @ + 1]]

\* the weight an existing edge gets from a repeated add_edge
EdgeWeight(old, new) == Max(old, new)

\* KnowledgeGraph.add_edge
AddEdge(G, source0, target0, relation, weight, clock) ==
    LET source == Lower(source0)
        target == Lower(target0)
        G1     == AddNode(AddNode(G, source, clock), target, clock)
        hit    == {i \in 1..Len(G1.edges) : EdgeMatches(G1.eheap[G1.edges[i]], source, target)}
    IN  IF hit # {}
        THEN LET r == G1.edges[MinOf(hit)]
             IN  [G1 EXCEPT !.eheap = [@ EXCEPT ![r].weight = EdgeWeight(@, weight),
                                                ![r].relation = relation]]
        ELSE LET r == Fresh(G1.eheap)
             IN  [G1 EXCEPT !.edges = Append(@, r),
                            !.eheap = Ext(@, r, [source   |-> source,
                                                 target   |-> target,
                                                 relation |-> relation,
                                                 weight   |-> weight,
                                                 created  |-> IsoFormat(clock)])]

---------------------------------------------------------------------------
\* Store engine.

TicksPerDay == 1

\* the graph of store s, with the heaps its objects live in
GraphOf(s) == [nodes |-> nodes[s], edges |-> edges[s], nheap |-> nheap, eheap |-> eheap]

\* Object references are names without meaning: after every call each
\* object is named by one place that holds it (a store and a key or a
\* position there), chosen by the places alone, so that two states which
\* differ only in the names of their objects are one state.  Objects that no
\* store holds any more leave the heap.
Holders(E) == UNION {{<<s, k>> : k \in DOMAIN E[s]} : s \in Stores}

Canon(E, h) ==
    LET at   == Holders(E)
        name == [r \in {E[p[1]][p[2]] : p \in at} |-> CHOOSE p \in at : E[p[1]][p[2]] = r]
    IN  [ map  |-> [s \in Stores |-> [k \in DOMAIN E[s] |-> name[E[s][k]]]],
          heap |-> [n \in {name[r] : r \in DOMAIN name} |-> h[E[n[1]][n[2]]]] ]

\* assignments to the entry side and to the graph side of the state.  Where
\* a store gets another object under an id, what the old object shared is
\* no longer shared by that place, and what the new object shares (an
\* object another store holds already) is; links are the pairs of places
\* the call makes share a metadata dict.
SetEntriesSharing(E, h, links) ==
    LET c         == Canon(E, h)
        changed   == {p \in Holders(E) : \/ p[2] \notin DOMAIN entries[p[1]]
                                         \/ E[p[1]][p[2]] # entries[p[1]][p[2]]}
        kept      == {l \in shared : l \subseteq Holders(E) \ changed}
        inherited == IF shared = {} THEN {}
                     ELSE {{x[1], x[2]} :
                             x \in {y \in changed \X (Holders(E) \ changed) :
                                      \E p0 \in Holders(entries) :
                                          /\ y[2] # p0
                                          /\ entries[p0[1]][p0[2]] = E[y[1][1]][y[1][2]]
                                          /\ {p0, y[2]} \in shared}}
    IN  /\ entries' = c.map
        /\ heap' = c.heap
        /\ shared' = kept \cup inherited \cup links

SetEntries(E, h) == SetEntriesSharing(E, h, {})

SetGraph(s, G) ==
    LET n == Canon([nodes EXCEPT ![s] = G.nodes], G.nheap)
        e == Canon([edges EXCEPT ![s] = G.edges], G.eheap)
    IN  /\ nodes' = n.map
        /\ nheap' = n.heap
        /\ edges' = e.map
        /\ eheap' = e.heap

\* add: "for topic in entry.topics: self.graph.add_node(topic)"
RECURSIVE AddNodes(_, _, _, _)
AddNodes(G, topics, i, clock) ==
    IF i > Len(topics) THEN G
    ELSE AddNodes(AddNode(G, topics[i], clock), topics, i + 1, clock)

\* add: "for i, topic1 in enumerate(entry.topics): for topic2 in
\* entry.topics[i+1:]: self.graph.add_edge(topic1, topic2, 'co-occurs')"
RECURSIVE AddPairsAdjacent(_, _, _, _, _)
AddPairsAdjacent(G, topics, i, j, clock) ==
    IF i >= Len(topics) THEN G
    ELSE AddPairsAdjacent(AddEdge(G, topics[i], topics[i + 1], "co-occurs", DefaultWeight, clock),
                          topics, i + 1, i + 2, clock)
RECURSIVE AddPairs(_, _, _, _, _)
AddPairs(G, topics, i, j, clock) ==
    IF i > Len(topics) THEN G
    ELSE IF j > Len(topics) THEN AddPairs(G, topics, i + 1, i + 2, clock)
    ELSE AddPairs(AddEdge(G, topics[i], topics[j], "co-occurs", DefaultWeight, clock),
                  topics, i, j + 1, clock)

\* the callback cb2 raises when it is called, cb1 returns
Raises(callback) == callback = "cb2"

\* the callback cb3 calls unsubscribe("x", cb3) on the store when it is
\* called, and returns
Unsubscribes(callback) == callback = "cb3"

\* list.remove: the sequence without the first element equal to x
Remove(seq, x) ==
    LET i == MinOf({k \in 1..Len(seq) : seq[k] = x})
    IN  SubSeq(seq, 1, i - 1) \o SubSeq(seq, i + 1, Len(seq))

\* a notification whose inner loop does not move on when the callback it
\* has just called took itself out of the list the loop walks
RECURSIVE NotifyLoopInPlace(_, _, _, _, _, _)
NotifyLoopInPlace(subs, gone, entry, i, k, calls) ==
    IF i > Len(entry.topics) THEN [calls |-> calls, subs |-> subs, gone |-> gone]
    ELSE LET topic == entry.topics[i]
             cbs   == IF topic \in DOMAIN subs THEN subs[topic] ELSE <<>>
         IN  IF k > Len(cbs) THEN NotifyLoopInPlace(subs, gone, entry, i + 1, 1, calls)
             ELSE LET cb  == cbs[k]
                      hit == /\ Unsubscribes(cb)
                             /\ "x" \in DOMAIN subs
                             /\ \E j \in 1..Len(subs["x"]) : subs["x"][j] = cb
                  IN  NotifyLoopInPlace(
                          IF hit THEN [subs EXCEPT !["x"] = Remove(@, cb)] ELSE subs,
                          IF hit THEN gone \cup {<<"x", cb>>} ELSE gone,
                          entry, i, IF hit /\ topic = "x" THEN k ELSE k + 1,
                          Append(calls, [topic |-> topic, callback |-> cb,
                                         entry_id |-> entry.entry_id,
                                         outcome |-> IF Raises(cb) THEN "caught" ELSE "returned"]))

\* KnowledgeSync._notify_subscriptions, from the k-th callback of the i-th
\* topic of the entry on: "for topic in entry.topics: if topic in
\* self.subscriptions: for callback in self.subscriptions[topic]:
\* callback(entry)".  The inner loop walks the list itself, by position, so
\* that a callback which changes the list changes what the loop meets next.
\* subs is self.subscriptions and gone the callbacks unsubscribed so far.
RECURSIVE NotifyLoop(_, _, _, _, _, _)
NotifyLoop(subs, gone, entry, i, k, calls) ==
    IF i > Len(entry.topics) THEN [calls |-> calls, subs |-> subs, gone |-> gone]
    ELSE LET topic == entry.topics[i]
             cbs   == IF topic \in DOMAIN subs THEN subs[topic] ELSE <<>>
         IN  IF k > Len(cbs) THEN NotifyLoop(subs, gone, entry, i + 1, 1, calls)
             ELSE LET cb  == cbs[k]
                      hit == /\ Unsubscribes(cb)
                             /\ "x" \in DOMAIN subs
                             /\ \E j \in 1..Len(subs["x"]) : subs["x"][j] = cb
                  IN  NotifyLoop(
                          IF hit THEN [subs EXCEPT !["x"] = Remove(@, cb)] ELSE subs,
                          IF hit THEN gone \cup {<<"x", cb>>} ELSE gone,
                          entry, i, k + 1,
                          Append(calls, [topic |-> topic, callback |-> cb,
                                         entry_id |-> entry.entry_id,
                                         outcome |-> IF Raises(cb) THEN "caught" ELSE "returned"]))

\* KnowledgeSync._notify_subscriptions: the callbacks called with the entry,
\* in order: topic by topic of the entry, and for each topic the callbacks
\* in the order they subscribed.  A call records the topic it was made for,
\* the callback, the id of the entry and how it ended; an exception of a
\* callback is caught and the loop goes on.
RECURSIVE NotifyAborting(_, _, _)
NotifyAborting(s, entry, i) ==
    IF i > Len(entry.topics) THEN <<>>
    ELSE LET topic == entry.topics[i]
             cbs   == IF topic \in DOMAIN subscriptions[s] THEN subscriptions[s][topic] ELSE <<>>
             calls == [k \in 1..Len(cbs) |->
                         [topic |-> topic, callback |-> cbs[k], entry_id |-> entry.entry_id,
                          outcome |-> IF Raises(cbs[k]) THEN "raised" ELSE "returned"]]
             bad   == {k \in 1..Len(cbs) : Raises(cbs[k])}
         IN  IF bad # {} THEN SubSeq(calls, 1, MinOf(bad))
             ELSE calls \o NotifyAborting(s, entry, i + 1)
\* a notification that visits each topic of the entry once, however often
\* the entry lists it
RECURSIVE NotifyOncePerTopic(_, _, _)
NotifyOncePerTopic(s, entry, i) ==
    IF i > Len(entry.topics) THEN <<>>
    ELSE LET topic == entry.topics[i]
             cbs   == IF topic \in DOMAIN subscriptions[s] /\ \A j \in 1..(i - 1) : entry.topics[j] # topic
                      THEN subscriptions[s][topic] ELSE <<>>
         IN  [k \in 1..Len(cbs) |->
                [topic |-> topic, callback |-> cbs[k], entry_id |-> entry.entry_id,
                 outcome |-> IF Raises(cbs[k]) THEN "caught" ELSE "returned"]]
             \o NotifyOncePerTopic(s, entry, i + 1)
Notify(s, entry, i) ==
    NotifyLoop(subscriptions[s], unsubscribed[s], entry, i, 1, <<>>).calls

\* KnowledgeSync.subscribe
Subscribe(s, topic0, callback) ==
    LET topic == Lower(topic0)
        cbs   == IF topic \in DOMAIN subscriptions[s] THEN subscriptions[s][topic] ELSE <<>>
    IN  /\ subscriptions' = [subscriptions EXCEPT ![s] = Ext(@, topic, Append(cbs, callback))]
        /\ unsubscribed' = [unsubscribed EXCEPT ![s] = @ \ {<<topic, callback>>}]
        /\ last' = [op |-> "subscribe", store |-> s]
        /\ UNCHANGED <<now, heap, entries, nheap, nodes, eheap, edges, sync_log, payload, shared>>

\* KnowledgeSync.unsubscribe
Unsubscribe(s, topic0, callback) ==
    LET topic == Lower(topic0)
        cbs   == IF topic \in DOMAIN subscriptions[s] THEN subscriptions[s][topic] ELSE <<>>
    IN  IF \E k \in 1..Len(cbs) : cbs[k] = callback
        THEN /\ subscriptions' = [subscriptions EXCEPT ![s][topic] = Remove(cbs, callback)]
             /\ unsubscribed' = [unsubscribed EXCEPT ![s] = @ \cup {<<topic, callback>>}]
             /\ last' = [op |-> "unsubscribe", store |-> s, topic |-> topic,
                         callback |-> callback, result |-> TRUE]
             /\ UNCHANGED <<now, heap, entries, nheap, nodes, eheap, edges, sync_log, payload, shared>>
        ELSE /\ last' = [op |-> "unsubscribe", store |-> s, topic |-> topic,
                         callback |-> callback, result |-> FALSE]
             /\ UNCHANGED <<now, heap, entries, nheap, nodes, eheap, edges, sync_log, payload, subscriptions, unsubscribed, shared>>

\* add: "if not content or not content.strip(): raise ValueError"
InvalidEmptyOnly(content) == content = ""
Invalid(content) == content = "" \/ Strip(content) = ""

\* an expiry that takes 0 days for a number of days like any other
ExpiresAtZeroToo(expires_in_days, clock) ==
    IF expires_in_days # None
    THEN clock + expires_in_days * TicksPerDay
    ELSE None

\* add: "expires = None; if expires_in_days: expires = datetime.now() +
\* timedelta(days=expires_in_days)"
ExpiresAt(expires_in_days, clock) ==
    IF expires_in_days # None /\ expires_in_days # 0
    THEN clock + expires_in_days * TicksPerDay
    ELSE None

\* KnowledgeSync.add
Add(s, content, category, topics, confidence, expires_in_days, references, metadata) ==
    IF Invalid(content)
    THEN /\ last' = [op |-> "add", store |-> s, raised |-> "ValueError",
                     content |-> content, notified |-> <<>>]
         /\ UNCHANGED <<now, heap, entries, nheap, nodes, eheap, edges, sync_log, payload, subscriptions, unsubscribed, shared>>
    ELSE LET expires == ExpiresAt(expires_in_days, now)
             entry   == KnowledgeEntry(Strip(content), Agent(s), category, topics,
                                       confidence, expires, references, metadata,
                                       NoId, None, None, now)
             r       == Fresh(heap)
             G       == AddPairs(AddNodes(GraphOf(s), entry.topics, 1, now),
                                 entry.topics, 1, 2, now)
         IN  /\ SetEntries([entries EXCEPT ![s] = Ext(@, entry.entry_id, r)],
                           Ext(heap, r, entry))
             /\ SetGraph(s, G)
             /\ last' = [op |-> "add", store |-> s, raised |-> "",
                         content |-> content, confidence |-> confidence,
                         expires_in_days |-> expires_in_days,
                         id |-> entry.entry_id, notified |-> Notify(s, entry, 1)]
             /\ subscriptions' = [subscriptions EXCEPT ![s] =
                    NotifyLoop(@, unsubscribed[s], entry, 1, 1, <<>>).subs]
             /\ unsubscribed' = [unsubscribed EXCEPT ![s] =
                    NotifyLoop(subscriptions[s], @, entry, 1, 1, <<>>).gone]
             /\ UNCHANGED <<now, sync_log, payload>>

\* update: "if entry_id not in self.entries: return None", else
\* self.entries[entry_id]; the result is a reference, or NoRef for None
NoRef == <<"None">>
LookupAny(s, id) ==
    IF id \in DOMAIN entries[s] THEN entries[s][id]
    ELSE IF entries[s] = EmptyMap THEN NoRef
    ELSE entries[s][CHOOSE x \in DOMAIN entries[s] : TRUE]
Lookup(s, id) == IF id \in DOMAIN entries[s] THEN entries[s][id] ELSE NoRef

\* update: "entry.updated = datetime.now()"
TouchReset(e, clock) == [e EXCEPT !.updated = e.created]
Touch(e, clock) == [e EXCEPT !.updated = clock]

\* the objects other than r whose metadata dict is the one of object r
SharingWith(r) ==
    {entries[q[1]][q[2]] :
        q \in {q \in Holders(entries) :
                 \E p \in Holders(entries) :
                     entries[p[1]][p[2]] = r /\ {p, q} \in shared}} \ {r}

\* KnowledgeSync.update; upd maps the names of the supplied arguments to
\* their values (an argument left out is None in the code)
Update(s, id, upd) ==
    IF Lookup(s, id) = NoRef
    THEN /\ last' = [op |-> "update", store |-> s, found |-> FALSE,
                     id |-> id, args |-> upd, notified |-> <<>>]
         /\ UNCHANGED <<now, heap, entries, nheap, nodes, eheap, edges, sync_log, payload, subscriptions, unsubscribed, shared>>
    ELSE LET r  == Lookup(s, id)
             e0 == heap[r]
             e1 == IF "content" \in DOMAIN upd
                   THEN [e0 EXCEPT !.content = Strip(upd.content)] ELSE e0
             e2 == IF "category" \in DOMAIN upd
                   THEN [e1 EXCEPT !.category = Upper(upd.category)] ELSE e1
             e3 == IF "topics" \in DOMAIN upd
                   THEN [e2 EXCEPT !.topics = [i \in 1..Len(upd.topics) |-> Lower(upd.topics[i])]]
                   ELSE e2
             e4 == IF "confidence" \in DOMAIN upd
                   THEN [e3 EXCEPT !.confidence = Clamp(upd.confidence)] ELSE e3
             e5 == IF "metadata" \in DOMAIN upd
                   THEN [e4 EXCEPT !.metadata = Merge(@, upd.metadata)] ELSE e4
             also == IF "metadata" \in DOMAIN upd THEN SharingWith(r) ELSE {}
         IN  /\ heap' = [x \in DOMAIN heap |->
                            IF x = r THEN Touch(e5, now)
                            ELSE IF x \in also THEN [heap[x] EXCEPT !.metadata = e5.metadata]
                            ELSE heap[x]]
             /\ last' = [op |-> "update", store |-> s, found |-> TRUE,
                         id |-> id, args |-> upd,
                         notified |-> Notify(s, Touch(e5, now), 1)]
             /\ subscriptions' = [subscriptions EXCEPT ![s] =
                    NotifyLoop(@, unsubscribed[s], Touch(e5, now), 1, 1, <<>>).subs]
             /\ unsubscribed' = [unsubscribed EXCEPT ![s] =
                    NotifyLoop(subscriptions[s], @, Touch(e5, now), 1, 1, <<>>).gone]
             /\ UNCHANGED <<now, entries, nheap, nodes, eheap, edges, sync_log, payload, shared>>

\* delete that also drops the edges of the graph
DeletePruning(s, id) ==
    IF id \notin DOMAIN entries[s]
    THEN /\ last' = [op |-> "delete", store |-> s, result |-> FALSE]
         /\ UNCHANGED <<now, heap, entries, nheap, nodes, eheap, edges, sync_log, payload, subscriptions, unsubscribed, shared>>
    ELSE /\ SetEntries([entries EXCEPT ![s] = Restrict(@, DOMAIN @ \ {id})], heap)
         /\ SetGraph(s, [nodes |-> nodes[s], edges |-> <<>>, nheap |-> nheap, eheap |-> eheap])
         /\ last' = [op |-> "delete", store |-> s, result |-> TRUE]
         /\ UNCHANGED <<now, sync_log, payload, subscriptions, unsubscribed>>
\* KnowledgeSync.delete
Delete(s, id) ==
    IF id \notin DOMAIN entries[s]
    THEN /\ last' = [op |-> "delete", store |-> s, result |-> FALSE]
         /\ UNCHANGED <<now, heap, entries, nheap, nodes, eheap, edges, sync_log, payload, subscriptions, unsubscribed, shared>>
    ELSE /\ SetEntries([entries EXCEPT ![s] = Restrict(@, DOMAIN @ \ {id})], heap)
         /\ last' = [op |-> "delete", store |-> s, result |-> TRUE]
         /\ UNCHANGED <<now, nheap, nodes, eheap, edges, sync_log, payload, subscriptions, unsubscribed>>

\* cleanup_expired that takes every entry with an expiry for expired
CleanupExpiredEarly(s) ==
    LET expired_ids == {id \in DOMAIN entries[s] : heap[entries[s][id]].expires # None}
    IN  /\ SetEntries([entries EXCEPT ![s] = Restrict(@, DOMAIN @ \ expired_ids)], heap)
        /\ last' = [op |-> "cleanup_expired", store |-> s, result |-> Cardinality(expired_ids)]
        /\ UNCHANGED <<now, nheap, nodes, eheap, edges, sync_log, payload, subscriptions, unsubscribed>>
\* KnowledgeSync.cleanup_expired
CleanupExpired(s) ==
    LET expired_ids == {id \in DOMAIN entries[s] : IsExpired(heap[entries[s][id]], now)}
    IN  /\ SetEntries([entries EXCEPT ![s] = Restrict(@, DOMAIN @ \ expired_ids)], heap)
        /\ last' = [op |-> "cleanup_expired", store |-> s, result |-> Cardinality(expired_ids)]
        /\ UNCHANGED <<now, nheap, nodes, eheap, edges, sync_log, payload, subscriptions, unsubscribed>>

\* clear that forgets the sync log
ClearKeepingLog(s, confirm) ==
    IF ~confirm
    THEN /\ last' = [op |-> "clear", store |-> s, confirm |-> confirm, result |-> FALSE]
         /\ UNCHANGED <<now, heap, entries, nheap, nodes, eheap, edges, sync_log, payload, subscriptions, unsubscribed, shared>>
    ELSE /\ SetEntries([entries EXCEPT ![s] = EmptyMap], heap)
         /\ SetGraph(s, [nodes |-> EmptyMap, edges |-> <<>>, nheap |-> nheap, eheap |-> eheap])
         /\ last' = [op |-> "clear", store |-> s, confirm |-> confirm, result |-> TRUE]
         /\ UNCHANGED <<now, sync_log, payload, subscriptions, unsubscribed>>
\* KnowledgeSync.clear
Clear(s, confirm) ==
    IF ~confirm
    THEN /\ last' = [op |-> "clear", store |-> s, confirm |-> confirm, result |-> FALSE]
         /\ UNCHANGED <<now, heap, entries, nheap, nodes, eheap, edges, sync_log, payload, subscriptions, unsubscribed, shared>>
    ELSE /\ SetEntries([entries EXCEPT ![s] = EmptyMap], heap)
         /\ SetGraph(s, [nodes |-> EmptyMap, edges |-> <<>>, nheap |-> nheap, eheap |-> eheap])
         /\ sync_log' = [sync_log EXCEPT ![s] = <<>>]
         /\ last' = [op |-> "clear", store |-> s, confirm |-> confirm, result |-> TRUE]
         /\ UNCHANGED <<now, payload, subscriptions, unsubscribed>>

---------------------------------------------------------------------------
\* Sync/merge engine.

\* sync, for an id both stores hold: what the timestamps decide
SyncCaseNewerOrEqual(ours, theirs) ==
    IF theirs.updated >= ours.updated THEN "updated" ELSE "none"
SyncCaseNoConflict(ours, theirs) ==
    IF theirs.updated > ours.updated THEN "updated" ELSE "none"
SyncCaseKeepOurs(ours, theirs) ==
    IF theirs.updated = ours.updated THEN "conflict" ELSE "none"
SyncCase(ours, theirs) ==
    IF theirs.updated > ours.updated THEN "updated"
    ELSE IF theirs.updated = ours.updated THEN "conflict"
    ELSE "none"

\* import_from_sync, for an id the store holds already
ImportCaseAsSync(ours, theirs) ==
    IF theirs.updated > ours.updated THEN "updated"
    ELSE IF theirs.updated = ours.updated THEN "conflict"
    ELSE "none"
ImportCase(ours, theirs) ==
    IF theirs.updated > ours.updated THEN "updated"
    ELSE IF theirs.updated = ours.updated /\ theirs.content # ours.content THEN "conflict"
    ELSE "none"

\* sync: what the loop over other.entries does with one id of the other store
SyncOutcome(s, o, id) ==
    IF id \notin DOMAIN entries[s] THEN "added"
    ELSE SyncCase(heap[entries[s][id]], heap[entries[o][id]])

\* sync: "for edge in other.graph.edges: ... if not exists: append(edge)"
RECURSIVE SyncEdges(_, _, _, _)
SyncEdges(mine, theirs, i, eh) ==
    IF i > Len(theirs) THEN mine
    ELSE LET edge   == eh[theirs[i]]
             exists == \E j \in 1..Len(mine) : EdgeMatches(eh[mine[j]], edge.source, edge.target)
         IN  SyncEdges(IF exists THEN mine ELSE Append(mine, theirs[i]), theirs, i + 1, eh)

\* the three counters of a merge
Count(outcome, ids, what) == Cardinality({id \in ids : outcome[id] = what})

\* sync: the record appended to self._sync_log
SyncRecordSwapped(s, o, stats, clock) ==
    [timestamp |-> IsoFormat(clock), agent |-> Agent(o), synced_with |-> Agent(s), stats |-> stats]
SyncRecord(s, o, stats, clock) ==
    [timestamp |-> IsoFormat(clock), agent |-> Agent(s), synced_with |-> Agent(o), stats |-> stats]

\* a sync that records itself in the log of the other store as well
SyncLoggingBoth(s, o) ==
    LET outcome == [id \in DOMAIN entries[o] |-> SyncOutcome(s, o, id)]
        stats   == [added     |-> Count(outcome, DOMAIN entries[o], "added"),
                    updated   |-> Count(outcome, DOMAIN entries[o], "updated"),
                    conflicts |-> Count(outcome, DOMAIN entries[o], "conflict")]
        mine    == [id \in DOMAIN entries[s] \cup DOMAIN entries[o] |->
                      IF id \in DOMAIN entries[o] /\ outcome[id] \in {"added", "updated"}
                      THEN entries[o][id]
                      ELSE entries[s][id]]
        G       == [nodes |-> [t \in DOMAIN nodes[s] \cup DOMAIN nodes[o] |->
                                 IF t \in DOMAIN nodes[s] THEN nodes[s][t] ELSE nodes[o][t]],
                    edges |-> SyncEdges(edges[s], edges[o], 1, eheap),
                    nheap |-> nheap,
                    eheap |-> eheap]
    IN  /\ SetEntries([entries EXCEPT ![s] = mine], heap)
        /\ SetGraph(s, G)
        /\ sync_log' = [x \in Stores |->
                          IF x \in {s, o}
                          THEN Append(sync_log[x], SyncRecord(s, o, stats, now))
                          ELSE sync_log[x]]
        /\ last' = [op |-> "sync", store |-> s, other |-> o, stats |-> stats,
                    untouched |-> Count(outcome, DOMAIN entries[o], "none")]
        /\ UNCHANGED <<now, payload, subscriptions, unsubscribed>>

\* KnowledgeSync.sync(other)
Sync(s, o) ==
    LET outcome == [id \in DOMAIN entries[o] |-> SyncOutcome(s, o, id)]
        stats   == [added     |-> Count(outcome, DOMAIN entries[o], "added"),
                    updated   |-> Count(outcome, DOMAIN entries[o], "updated"),
                    conflicts |-> Count(outcome, DOMAIN entries[o], "conflict")]
        mine    == [id \in DOMAIN entries[s] \cup DOMAIN entries[o] |->
                      IF id \in DOMAIN entries[o] /\ outcome[id] \in {"added", "updated"}
                      THEN entries[o][id]
                      ELSE entries[s][id]]
        G       == [nodes |-> [t \in DOMAIN nodes[s] \cup DOMAIN nodes[o] |->
                                 IF t \in DOMAIN nodes[s] THEN nodes[s][t] ELSE nodes[o][t]],
                    edges |-> SyncEdges(edges[s], edges[o], 1, eheap),
                    nheap |-> nheap,
                    eheap |-> eheap]
    IN  /\ SetEntries([entries EXCEPT ![s] = mine], heap)
        /\ SetGraph(s, G)
        /\ sync_log' = [sync_log EXCEPT ![s] = Append(@, SyncRecord(s, o, stats, now))]
        /\ last' = [op |-> "sync", store |-> s, other |-> o, stats |-> stats,
                    untouched |-> Count(outcome, DOMAIN entries[o], "none")]
        /\ UNCHANGED <<now, payload, subscriptions, unsubscribed>>

\* KnowledgeSync.sync() without another store: the state is saved only
SyncNone(s) ==
    /\ last' = [op |-> "sync", store |-> s, other |-> "",
                stats |-> [added |-> 0, updated |-> 0, conflicts |-> 0], untouched |-> 0]
    /\ UNCHANGED <<now, heap, entries, nheap, nodes, eheap, edges, sync_log, payload, subscriptions, unsubscribed, shared>>

\* KnowledgeSync.export_for_sync, with KnowledgeGraph.to_dict, serialized
ExportOf(s, clock) ==
    [ version     |-> "1.0",
      exported_at |-> IsoFormat(clock),
      agent       |-> Agent(s),
      entries     |-> LET ids == SeqOf(DOMAIN entries[s])
                      IN  [i \in 1..Len(ids) |-> ToDict(heap[entries[s][ids[i]]])],
      graph       |-> [nodes |-> [t \in DOMAIN nodes[s] |-> nheap[nodes[s][t]]],
                       edges |-> [i \in 1..Len(edges[s]) |-> eheap[edges[s][i]]]] ]

\* KnowledgeSync.export_for_sync as the caller gets it, before anything
\* writes it out: the dict of an entry holds the metadata dict of the entry
\* object of store s itself ("metadata": self.metadata in to_dict)
ExportLive(s, clock) == Ext(ExportOf(s, clock), "objects", s)

ExportForSync(s) ==
    /\ payload' = ExportOf(s, now)
    /\ last' = [op |-> "export_for_sync", store |-> s]
    /\ UNCHANGED <<now, heap, entries, nheap, nodes, eheap, edges, sync_log, subscriptions, unsubscribed, shared>>

\* import_from_sync: the loop over data["entries"]; st is [map, heap, stats]
RECURSIVE ImportEntries(_, _, _, _)
ImportEntries(st, ds, i, clock) ==
    IF i > Len(ds) THEN st
    ELSE LET entry == FromDict(ds[i], clock)
             id    == entry.entry_id
             r     == Fresh(st.heap)
             what  == IF id \notin DOMAIN st.map THEN "added"
                      ELSE ImportCase(st.heap[st.map[id]], entry)
             st1   == CASE what = "added" ->
                             [map   |-> Ext(st.map, id, r),
                              heap  |-> Ext(st.heap, r, entry),
                              stats |-> [st.stats EXCEPT !.added = @ + 1]]
                        [] what = "updated" ->
                             [map   |-> Ext(st.map, id, r),
                              heap  |-> Ext(st.heap, r, entry),
                              stats |-> [st.stats EXCEPT !.updated = @ + 1]]
                        [] what = "conflict" ->
                             [st EXCEPT !.stats.conflicts = @ + 1]
                        [] OTHER -> st
         IN  ImportEntries(st1, ds, i + 1, clock)

\* a node merge that lets the incoming metadata win over the local one
RECURSIVE ImportNodesOverwrite(_, _, _)
ImportNodesOverwrite(G, metas, topics) ==
    IF topics = <<>> THEN G
    ELSE LET topic == Head(topics)
             r     == Fresh(G.nheap)
         IN  ImportNodesOverwrite([G EXCEPT !.nodes = Ext(Restrict(@, DOMAIN @ \ {topic}),
                                                          topic, r),
                                            !.nheap = Ext(@, r, metas[topic])],
                                  metas, Tail(topics))

\* import_from_sync: "for topic, meta in nodes: if topic not in
\* self.graph.nodes: self.graph.nodes[topic] = meta"
RECURSIVE ImportNodes(_, _, _)
ImportNodes(G, metas, topics) ==
    IF topics = <<>> THEN G
    ELSE LET topic == Head(topics)
             r     == Fresh(G.nheap)
         IN  ImportNodes(IF topic \notin DOMAIN G.nodes
                         THEN [G EXCEPT !.nodes = Ext(@, topic, r),
                                        !.nheap = Ext(@, r, metas[topic])]
                         ELSE G,
                         metas, Tail(topics))

\* import_from_sync: "for edge in edges: self.graph.edges.append(edge)"
RECURSIVE ImportEdges(_, _, _)
ImportEdges(G, es, i) ==
    IF i > Len(es) THEN G
    ELSE LET r == Fresh(G.eheap)
         IN  ImportEdges([G EXCEPT !.edges = Append(@, r),
                                   !.eheap = Ext(@, r, es[i])],
                         es, i + 1)

\* KnowledgeSync.import_from_sync(data)
ImportFromSync(s, data) ==
    LET st == ImportEntries([map   |-> entries[s],
                             heap  |-> heap,
                             stats |-> [added |-> 0, updated |-> 0, conflicts |-> 0]],
                            data.entries, 1, now)
        G  == ImportEdges(ImportNodes(GraphOf(s), data.graph.nodes,
                                      SeqOf(DOMAIN data.graph.nodes)),
                          data.graph.edges, 1)
        \* "self.metadata = metadata or {}": an entry built from a dict that
        \* holds the metadata dict of an object, not empty, has that very dict
        links == IF "objects" \notin DOMAIN data THEN {}
                 ELSE {{<<s, x[1]>>, x[2]} :
                         x \in {y \in (DOMAIN entries[data.objects]) \X Holders(entries) :
                                  /\ y[1] \in DOMAIN st.map
                                  /\ (y[1] \notin DOMAIN entries[s]
                                        \/ st.map[y[1]] # entries[s][y[1]])
                                  /\ st.heap[st.map[y[1]]].metadata # EmptyMap
                                  /\ y[2] # <<s, y[1]>>
                                  /\ (y[2] = <<data.objects, y[1]>>
                                        \/ {<<data.objects, y[1]>>, y[2]} \in shared)}}
    IN  /\ SetEntriesSharing([entries EXCEPT ![s] = st.map], st.heap, links)
        /\ SetGraph(s, G)
        /\ last' = [op |-> "import_from_sync", store |-> s, from |-> data.agent,
                    stats |-> st.stats,
                    untouched |-> Len(data.entries) - st.stats.added
                                    - st.stats.updated - st.stats.conflicts]
        /\ UNCHANGED <<now, sync_log, payload, subscriptions, unsubscribed>>

---------------------------------------------------------------------------
\* The state after construction: empty stores (KnowledgeSync.__init__ with
\* nothing to load) and no export taken yet.

NoExport ==
    [version |-> "1.0", exported_at |-> JsonNull, agent |-> "",
     entries |-> <<>>, graph |-> [nodes |-> EmptyMap, edges |-> <<>>]]

Init ==
    /\ now = 0
    /\ heap = EmptyMap
    /\ entries = [s \in Stores |-> EmptyMap]
    /\ nheap = EmptyMap
    /\ nodes = [s \in Stores |-> EmptyMap]
    /\ eheap = EmptyMap
    /\ edges = [s \in Stores |-> <<>>]
    /\ sync_log = [s \in Stores |-> <<>>]
    /\ payload = NoExport
    /\ last = [op |-> "init"]
    /\ shared = {}
    /\ subscriptions = [s \in Stores |-> EmptyMap]
    /\ unsubscribed = [s \in Stores |-> {}]

\* the entry ids in existence
AllIds ==
    UNION {DOMAIN entries[s] : s \in Stores}
        \cup {payload.entries[i].entry_id : i \in 1..Len(payload.entries)}

\* the number of records in the sync logs of the stores S
RECURSIVE LogSize(_)
LogSize(S) ==
    IF S = {} THEN 0
    ELSE LET s == CHOOSE x \in S : TRUE IN Len(sync_log[s]) + LogSize(S \ {s})

\* the part of the state space the bounds keep
Bounded ==
    /\ Cardinality(AllIds) <= MaxIds
    /\ \A r \in DOMAIN nheap : nheap[r].references <= MaxRefs
    /\ \A s \in Stores : Len(edges[s]) <= MaxEdges
    /\ LogSize(Stores) <= MaxLog

\* datetime.now() moves on between two calls
Tick ==
    /\ now < MaxTime
    /\ now' = now + 1
    /\ last' = [op |-> "tick"]
    /\ UNCHANGED <<heap, entries, nheap, nodes, eheap, edges, sync_log, payload, subscriptions, unsubscribed, shared>>

---------------------------------------------------------------------------
\* Spec: entries written in two of the stores and merged in both forms.

Peers == {"A", "B"}

DoAdd ==
    \E s \in Peers :
        /\ Add(s, "c1", "FACT", <<>>, 8, None, <<>>, EmptyMap)
        /\ Bounded'

DoUpdate ==
    \E s \in Peers, id \in AllIds :
        Update(s, id, [content |-> "c2"])

DoSync ==
    \E s \in Peers, o \in Peers : o # s /\ Sync(s, o) /\ Bounded'

\* one store's export, written out and read back by the other at once
DoImport ==
    \E s \in Peers, o \in Peers : o # s /\ ImportFromSync(s, ExportOf(o, now)) /\ Bounded'

Next ==
    \/ Tick
    \/ DoAdd
    \/ DoUpdate
    \/ DoSync
    \/ DoImport

Spec == Init /\ [][Next]_vars

---------------------------------------------------------------------------
\* Properties of the merge of entries, stated for the steps of Spec.

\* what store s holds under id, and the ids two stores both hold
Entry(s, id) == heap[entries[s][id]]
Both(s, o) == DOMAIN entries[s] \cap DOMAIN entries[o]

\* the step is s.sync(o); the step is s.import_from_sync(export of o)
IsSync(s, o) == o # s /\ last'.op = "sync" /\ last'.store = s /\ last'.other = o
IsImport(s, o) ==
    o # s /\ last'.op = "import_from_sync" /\ last'.store = s /\ last'.from = Agent(o)

\* C1: in s.sync(o), an id of both stores whose incoming entry is strictly
\* newer is replaced by the incoming entry (the very object of o) and
\* counted once in "updated"; one whose incoming entry is strictly older is
\* left as it was and raises no counter.
C1_SyncNewerReplacesOlderKept ==
    [][\A s \in Peers, o \in Peers :
         IsSync(s, o) =>
           LET newer == {id \in Both(s, o) : Entry(o, id).updated > Entry(s, id).updated}
               older == {id \in Both(s, o) : Entry(o, id).updated < Entry(s, id).updated}
           IN  /\ \A id \in newer :
                     /\ heap'[entries'[s][id]] = Entry(o, id)
                     /\ entries'[s][id] = entries'[o][id]
               /\ last'.stats.updated = Cardinality(newer)
               /\ \A id \in older : heap'[entries'[s][id]] = Entry(s, id)
               /\ last'.stats.added + last'.stats.updated + last'.stats.conflicts
                     = Cardinality(DOMAIN entries[o] \ older)
               /\ last'.untouched = Cardinality(older)
      ]_vars

\* a sync that replaced one entry by a newer one and left an older one alone
C1_Witness ==
    /\ last.op = "sync"
    /\ last.other # ""
    /\ last.stats.updated >= 1
    /\ last.untouched >= 1

\* C2: in s.sync(o), an id of both stores with equal timestamps counts as
\* a conflict and the local entry stays as it was, whether the contents
\* differ or not.
C2_SyncEqualIsConflict ==
    [][\A s \in Peers, o \in Peers :
         IsSync(s, o) =>
           LET equal == {id \in Both(s, o) : Entry(o, id).updated = Entry(s, id).updated}
           IN  /\ last'.stats.conflicts = Cardinality(equal)
               /\ \A id \in equal : heap'[entries'[s][id]] = Entry(s, id)
      ]_vars

\* a sync that counted a conflict for two entries of different content
C2_Witness ==
    /\ last.op = "sync"
    /\ last.other # ""
    /\ last.stats.conflicts >= 1
    /\ \E id \in Both(last.store, last.other) :
          /\ Entry(last.store, id).updated = Entry(last.other, id).updated
          /\ Entry(last.store, id).content # Entry(last.other, id).content

\* C3: both merge forms insert every incoming entry whose id the store does
\* not hold, under that id, and "added" is the number of these entries; the
\* import of a store's export into an empty store adds every exported entry
\* and yields the same set of ids.
C3_AbsentIdsAreAdded ==
    [][\A s \in Peers, o \in Peers :
         LET absent == DOMAIN entries[o] \ DOMAIN entries[s]
         IN  /\ IsSync(s, o) =>
                  /\ \A id \in absent :
                        /\ id \in DOMAIN entries'[s]
                        /\ heap'[entries'[s][id]] = Entry(o, id)
                  /\ last'.stats.added = Cardinality(absent)
             /\ IsImport(s, o) =>
                  /\ \A id \in absent :
                        /\ id \in DOMAIN entries'[s]
                        /\ heap'[entries'[s][id]].entry_id = id
                        /\ heap'[entries'[s][id]].content = Entry(o, id).content
                  /\ last'.stats.added = Cardinality(absent)
                  /\ entries[s] = EmptyMap =>
                        /\ last'.stats.added = Len(ExportOf(o, now).entries)
                        /\ DOMAIN entries'[s] = DOMAIN entries[o]
      ]_vars

\* an import that added every entry the store now holds, two or more
C3_Witness ==
    /\ last.op = "import_from_sync"
    /\ last.stats.added >= 2
    /\ last.stats.added = Cardinality(DOMAIN entries[last.store])

\* C6: in import_from_sync, an id the store holds with an equal timestamp
\* counts as a conflict only when the contents differ, and the local entry
\* stays as it was in either case.
C6_ImportEqualConflictOnContent ==
    [][\A s \in Peers, o \in Peers :
         IsImport(s, o) =>
           LET equal  == {id \in Both(s, o) : Entry(o, id).updated = Entry(s, id).updated}
               differ == {id \in equal : Entry(o, id).content # Entry(s, id).content}
           IN  /\ last'.stats.conflicts = Cardinality(differ)
               /\ \A id \in equal : heap'[entries'[s][id]] = Entry(s, id)
      ]_vars

\* an import that met an equal timestamp twice: once with other content (a
\* conflict), once with the same content (nothing counted)
C6_Witness ==
    /\ last.op = "import_from_sync"
    /\ last.stats.conflicts = 1
    /\ last.untouched = 1
    /\ \A id \in DOMAIN entries[last.store] :
          \E o \in Peers :
              /\ Agent(o) = last.from
              /\ id \in DOMAIN entries[o]
              /\ Entry(o, id).updated = Entry(last.store, id).updated

---------------------------------------------------------------------------
\* SpecGraph: the graph of one store, built by add_node and add_edge called
\* on it directly and by the store's add of entries with two topics.

\* KnowledgeGraph.add_node and KnowledgeGraph.add_edge on the graph of s
GraphAddNode(s, topic) ==
    /\ SetGraph(s, AddNode(GraphOf(s), topic, now))
    /\ last' = [op |-> "add_node", store |-> s, topic |-> Lower(topic)]
    /\ UNCHANGED <<now, heap, entries, sync_log, payload, subscriptions, unsubscribed, shared>>

GraphAddEdge(s, source, target, relation, weight) ==
    /\ SetGraph(s, AddEdge(GraphOf(s), source, target, relation, weight, now))
    /\ last' = [op |-> "add_edge", store |-> s, source |-> Lower(source),
                target |-> Lower(target), relation |-> relation, weight |-> weight]
    /\ UNCHANGED <<now, heap, entries, sync_log, payload, subscriptions, unsubscribed, shared>>

Topics == {"a", "B"}
Relations == {"related_to", "uses"}
Weights == {10, 20}

DoAddNode ==
    \E topic \in Topics : GraphAddNode("A", topic) /\ Bounded'

DoAddEdge ==
    \E source \in Topics, target \in Topics, relation \in Relations, weight \in Weights :
        GraphAddEdge("A", source, target, relation, weight) /\ Bounded'

DoAddPair ==
    \E topics \in {<<"a", "B">>, <<"B", "a">>} :
        Add("A", "c1", "FACT", topics, 8, None, <<>>, EmptyMap) /\ Bounded'

NextGraph ==
    \/ DoAddNode
    \/ DoAddEdge
    \/ DoAddPair

SpecGraph == Init /\ [][NextGraph]_vars

\* the edges of store s, in list order, and the edges among them that join
\* the topics a and b in either direction
EdgeList(s) == [i \in 1..Len(edges[s]) |-> eheap[edges[s][i]]]
Joining(s, a, b) ==
    {i \in 1..Len(edges[s]) : {EdgeList(s)[i].source, EdgeList(s)[i].target} = {a, b}}
OneEdgePerPair(s) ==
    \A i \in 1..Len(edges[s]) :
        Joining(s, EdgeList(s)[i].source, EdgeList(s)[i].target) = {i}

\* C9: a graph built by add_edge calls and store add calls has at most one
\* edge per unordered pair of topics; add_edge(a, b) followed by
\* add_edge(b, a) leaves one edge between a and b.
C9_OneEdgePerUnorderedPair ==
    \A s \in Stores : OneEdgePerPair(s)

\* C10: add_edge on a pair of topics that an edge joins already keeps the
\* number of edges, and the edge of that pair then carries the relation just
\* given and the larger of its old weight and the weight just given; the
\* same (a, b, relation, w) added twice leaves one edge of weight w.
C10_AddEdgeOnJoinedPairUpdates ==
    [][\A s \in Stores :
         (last'.op = "add_edge" /\ last'.store = s) =>
           LET joined == Joining(s, last'.source, last'.target)
           IN  joined # {} =>
                 /\ Len(edges'[s]) = Len(edges[s])
                 /\ \E i \in joined :
                       /\ eheap'[edges'[s][i]].relation = last'.relation
                       /\ eheap'[edges'[s][i]].weight
                             = Max(EdgeList(s)[i].weight, last'.weight)
      ]_vars

---------------------------------------------------------------------------
\* SpecTopics: store A writes an entry with a topic, changes topics, removes
\* entries by hand and by expiry, and merges in both forms what store B
\* wrote.

\* the clock of SpecTopics runs to MaxLate, past the expiry of an entry
MaxLate == 2

TickLate ==
    /\ now < MaxLate
    /\ now' = now + 1
    /\ last' = [op |-> "tick"]
    /\ UNCHANGED <<heap, entries, nheap, nodes, eheap, edges, sync_log, payload, subscriptions, unsubscribed, shared>>

\* each store writes one entry: store A a lasting one on the topic a, store
\* B one on the topic b that expires after a day
DoAddTopics ==
    \/ /\ "a" \notin DOMAIN nodes["A"]
       /\ Add("A", "c1", "FACT", <<"a">>, 8, None, <<>>, EmptyMap)
       /\ Bounded'
    \/ /\ "b" \notin DOMAIN nodes["B"]
       /\ Add("B", "c1", "FACT", <<"B">>, 8, 1, <<>>, EmptyMap)
       /\ Bounded'

DoUpdateTopics ==
    \E id \in DOMAIN entries["A"] : Update("A", id, [topics |-> <<"C">>])

DoDelete ==
    \E id \in DOMAIN entries["A"] : Delete("A", id)

DoCleanupExpired ==
    CleanupExpired("A")

DoSyncTopics ==
    Sync("A", "B") /\ Bounded'

DoImportTopics ==
    ImportFromSync("A", ExportOf("B", now)) /\ Bounded'

NextTopics ==
    \/ TickLate
    \/ DoAddTopics
    \/ DoUpdateTopics
    \/ DoDelete
    \/ DoCleanupExpired
    \/ DoSyncTopics
    \/ DoImportTopics

SpecTopics == Init /\ [][NextTopics]_vars

\* C8: every topic of every entry a store holds is a node of the store's
\* graph, with a reference count of at least 1.
C8_TopicsAreNodes ==
    \A s \in Stores : \A id \in DOMAIN entries[s] :
        \A i \in 1..Len(Entry(s, id).topics) :
            /\ Entry(s, id).topics[i] \in DOMAIN nodes[s]
            /\ nheap[nodes[s][Entry(s, id).topics[i]]].references >= 1

---------------------------------------------------------------------------
\* SpecGraphMerge: entries with two topics written in two stores, so that
\* the graphs the merges bring together have edges.

\* SpecGraphMerge drives the sync logs up to MaxSyncs records in all
MaxSyncs == 2

BoundedGraphs ==
    /\ Cardinality(AllIds) <= MaxIds
    /\ \A r \in DOMAIN nheap : nheap[r].references <= MaxRefs
    /\ \A s \in Stores : Len(edges[s]) <= MaxEdges
    /\ LogSize(Stores) <= MaxSyncs

\* store A writes on the topics a, b and store B on the topics b, a
DoAddPairs ==
    \/ Add("A", "c1", "FACT", <<"a", "B">>, 8, None, <<>>, EmptyMap) /\ BoundedGraphs'
    \/ Add("B", "c1", "FACT", <<"b", "a">>, 8, None, <<>>, EmptyMap) /\ BoundedGraphs'

DoSyncGraphs ==
    \E s \in Peers, o \in Peers : o # s /\ Sync(s, o) /\ BoundedGraphs'

DoImportGraphs ==
    \E s \in Peers, o \in Peers :
        o # s /\ ImportFromSync(s, ExportOf(o, now)) /\ BoundedGraphs'

NextGraphMerge ==
    \/ DoAddPairs
    \/ DoSyncGraphs
    \/ DoImportGraphs

SpecGraphMerge == Init /\ [][NextGraphMerge]_vars

\* the step merges o into s, in either form
IsMerge(s, o) == IsSync(s, o) \/ IsImport(s, o)

\* the last call merged o into s, in the form the step now repeats
Repeats(s, o) ==
    \/ IsSync(s, o) /\ last.op = "sync" /\ last.store = s /\ last.other = o
    \/ /\ IsImport(s, o)
       /\ last.op = "import_from_sync" /\ last.store = s /\ last.from = Agent(o)

\* the entries and the nodes of store s, by value
EntriesOf(s) == [id \in DOMAIN entries[s] |-> heap[entries[s][id]]]
NodesOf(s) == [t \in DOMAIN nodes[s] |-> nheap[nodes[s][t]]]

\* C4: a merge applied a second time (s.sync(o) again with o unchanged,
\* s.import_from_sync(x) again with the same export x) leaves the entries,
\* the nodes and the edges of s as the first application left them.
C4_MergeIdempotent ==
    [][\A s \in Peers, o \in Peers :
         Repeats(s, o) =>
           /\ EntriesOf(s)' = EntriesOf(s)
           /\ NodesOf(s)' = NodesOf(s)
           /\ EdgeList(s)' = EdgeList(s)
      ]_vars

\* C7: after a merge of o into s, an incoming edge has been appended to the
\* edges of s if and only if no edge of s joined the same unordered pair of
\* topics before; no two edges of s join one unordered pair afterwards.
C7_MergeAppendsUnjoinedEdgesOnly ==
    [][\A s \in Peers, o \in Peers :
         IsMerge(s, o) =>
           /\ \A k \in 1..Len(edges[o]) :
                 LET edge == EdgeList(o)[k]
                 IN  (\E j \in (Len(edges[s]) + 1)..Len(edges'[s]) :
                          eheap'[edges'[s][j]] = edge)
                       <=> Joining(s, edge.source, edge.target) = {}
           /\ OneEdgePerPair(s)'
      ]_vars

---------------------------------------------------------------------------
\* SpecConv: store C writes entries and exports a snapshot; stores A and B
\* each start from that snapshot, write and change entries on their own,
\* and then B merges A and A merges B, each merge in either form.

\* the call recorded in l merged store o into store s
Merged(l, s, o) ==
    \/ l.op = "sync" /\ l.store = s /\ l.other = o
    \/ l.op = "import_from_sync" /\ l.store = s /\ l.from = Agent(o)

\* store s has started from the snapshot of C
Started(s) == payload.agent = Agent("C") /\ entries[s] # EmptyMap

\* neither of the two merges has been made
NoMergeYet == ~Merged(last, "B", "A") /\ ~Merged(last, "A", "B")

DoTickConv ==
    NoMergeYet /\ Tick

DoSeed ==
    /\ payload.agent = ""
    /\ Add("C", "c1", "FACT", <<>>, 8, None, <<>>, EmptyMap)
    /\ Bounded'

DoSnapshot ==
    /\ payload.agent = ""
    /\ entries["C"] # EmptyMap
    /\ ExportForSync("C")

DoStart ==
    \E s \in Peers :
        /\ payload.agent = Agent("C")
        /\ entries[s] = EmptyMap
        /\ ImportFromSync(s, payload)

DoWrite ==
    \E s \in Peers :
        /\ Started(s)
        /\ NoMergeYet
        /\ Add(s, "c1", "FACT", <<>>, 8, None, <<>>, EmptyMap)
        /\ Bounded'

DoRewrite ==
    \E s \in Peers : \E id \in DOMAIN entries[s] :
        /\ Started(s)
        /\ NoMergeYet
        /\ Update(s, id, [content |-> IF s = "A" THEN "c2" ELSE "c3"])

DoMergeFirst ==
    /\ Started("A")
    /\ Started("B")
    /\ NoMergeYet
    /\ \/ Sync("B", "A")
       \/ ImportFromSync("B", ExportOf("A", now))

DoMergeBack ==
    /\ Merged(last, "B", "A")
    /\ \/ Sync("A", "B")
       \/ ImportFromSync("A", ExportOf("B", now))

NextConv ==
    \/ DoTickConv
    \/ DoSeed
    \/ DoSnapshot
    \/ DoStart
    \/ DoWrite
    \/ DoRewrite
    \/ DoMergeFirst
    \/ DoMergeBack

SpecConv == Init /\ [][NextConv]_vars

\* the ids two stores both hold with equal timestamps
Ties(s, o) == {id \in Both(s, o) : Entry(s, id).updated = Entry(o, id).updated}

\* no id is held by both stores with equal timestamps and different content
NoClash(s, o) == \A id \in Ties(s, o) : Entry(s, id).content = Entry(o, id).content

\* after the step, two stores hold the same ids with the same content
SameEntriesAfter(s, o) ==
    /\ DOMAIN entries'[s] = DOMAIN entries'[o]
    /\ \A id \in DOMAIN entries'[s] :
          heap'[entries'[s][id]].content = heap'[entries'[o][id]].content

\* C5, as the code has it: when A and B started from one snapshot of C and
\* hold no id with equal timestamps and different content, B merging A and
\* then A merging B leaves both with the same ids and the same content per
\* id.  A merge by import_from_sync reports no conflict.  A merge by
\* sync(other) reports one conflict for every id the two stores hold with
\* equal timestamps, so the merge back reports at least one conflict for
\* every entry the first merge brought over.
C5_MergeBothWaysConverges ==
    [][(Merged(last, "B", "A") /\ Merged(last', "A", "B") /\ NoClash("A", "B")) =>
         /\ SameEntriesAfter("A", "B")
         /\ last.op = "import_from_sync" => last.stats.conflicts = 0
         /\ last'.op = "import_from_sync" => last'.stats.conflicts = 0
         /\ last'.op = "sync" =>
               /\ last'.stats.conflicts = Cardinality(Ties("A", "B"))
               /\ last'.stats.conflicts >= last.stats.added + last.stats.updated
      ]_vars

\* both merges made, the second by sync(other): A's rewrite has reached B,
\* both stores hold the same two ids, and the merge back counted a conflict
C5_Witness ==
    /\ Merged(last, "A", "B")
    /\ last.op = "sync"
    /\ last.stats.conflicts >= 1
    /\ payload.agent = Agent("C")
    /\ DOMAIN entries["A"] = DOMAIN entries["B"]
    /\ Cardinality(DOMAIN entries["A"]) = 2
    /\ \A id \in DOMAIN entries["A"] : Entry("A", id).content = Entry("B", id).content
    /\ \E id \in DOMAIN entries["B"] : Entry("B", id).content = "c2"

\* C5 as stated: when A and B started from one snapshot of C and no id was
\* held by both with equal timestamps before the first merge, B merging A
\* and then A merging B leaves both with the same ids and the same content
\* per id, and both merges report no conflict.
C5_ConvergesWithoutConflicts ==
    [][(/\ Merged(last, "B", "A")
        /\ Merged(last', "A", "B")
        /\ Cardinality(Ties("A", "B")) = last.stats.added + last.stats.updated) =>
         /\ SameEntriesAfter("A", "B")
         /\ last.stats.conflicts = 0
         /\ last'.stats.conflicts = 0
      ]_vars

---------------------------------------------------------------------------
\* SpecAdd: one store with subscribers; entries are added with valid and
\* invalid content and with none, two or three topics.

\* a store is given up to MaxSubs callbacks
MaxSubs == 2

\* the number of callbacks subscribed in store s
RECURSIVE Subscribed(_, _)
Subscribed(s, topics) ==
    IF topics = {} THEN 0
    ELSE LET t == CHOOSE x \in topics : TRUE
         IN  Len(subscriptions[s][t]) + Subscribed(s, topics \ {t})

Contents == {"c1", " c1 ", " c2 ", "", "  "}
TopicLists == {<<>>, <<"x", "latency">>, <<"latency", "X">>, <<"a", "B", "c">>}

DoSubscribe ==
    \E topic \in {"X", "latency"}, callback \in {"cb1", "cb2"} :
        /\ Subscribed("A", DOMAIN subscriptions["A"]) < MaxSubs
        /\ Subscribe("A", topic, callback)

DoAddEntry ==
    \E content \in Contents, topics \in TopicLists :
        /\ Add("A", content, "FINDING", topics, 8, None, <<>>, EmptyMap)
        /\ Bounded'

NextAdd ==
    \/ Tick
    \/ DoSubscribe
    \/ DoAddEntry

SpecAdd == Init /\ [][NextAdd]_vars

\* C11: a successful add puts the entry into the mapping under its id,
\* makes every topic of the entry a node of the graph and leaves a
\* "co-occurs" edge between every two topics of the entry; with exactly two
\* distinct topics that were no nodes before, the graph gains these two
\* nodes and one edge, the edge between them.
C11_AddBuildsNodesAndPairEdges ==
    [][(last'.op = "add" /\ last'.raised = "") =>
         LET s == last'.store
             id == last'.id
         IN  /\ id \in DOMAIN entries'[s]
             /\ heap'[entries'[s][id]].entry_id = id
             /\ LET T == heap'[entries'[s][id]].topics
                    E == [k \in 1..Len(edges'[s]) |-> eheap'[edges'[s][k]]]
                IN  /\ \A i \in 1..Len(T) : T[i] \in DOMAIN nodes'[s]
                    /\ \A i \in 1..Len(T), j \in 1..Len(T) :
                          i < j => \E k \in 1..Len(E) :
                                      /\ {E[k].source, E[k].target} = {T[i], T[j]}
                                      /\ E[k].relation = "co-occurs"
                    /\ (Len(T) = 2 /\ T[1] # T[2] /\ {T[1], T[2]} \cap DOMAIN nodes[s] = {}) =>
                          /\ DOMAIN nodes'[s] = DOMAIN nodes[s] \cup {T[1], T[2]}
                          /\ Len(E) = Len(edges[s]) + 1
                          /\ {E[Len(E)].source, E[Len(E)].target} = {T[1], T[2]}
      ]_vars

\* an add of an entry with three topics has left three nodes and the three
\* edges between them
C11_Witness ==
    /\ last.op = "add"
    /\ last.raised = ""
    /\ Len(Entry(last.store, last.id).topics) = 3
    /\ Cardinality(DOMAIN nodes[last.store]) = 3
    /\ Len(edges[last.store]) = 3

\* C12: add with empty or whitespace-only content raises ValueError, changes
\* neither the mapping nor the graph nor the sync log and calls no
\* callback; an add that does not raise has stored content that is neither
\* empty nor whitespace.
C12_AddRejectsEmptyContent ==
    [][last'.op = "add" =>
         /\ last'.raised = "ValueError" =>
               /\ last'.content = "" \/ Strip(last'.content) = ""
               /\ last'.notified = <<>>
               /\ UNCHANGED <<heap, entries, nheap, nodes, eheap, edges, sync_log, subscriptions>>
         /\ last'.raised = "" =>
               /\ heap'[entries'[last'.store][last'.id]].content # ""
               /\ Strip(heap'[entries'[last'.store][last'.id]].content) # ""
      ]_vars

\* an add of whitespace was refused by a store that holds an entry with a
\* topic a callback is subscribed to
C12_Witness ==
    /\ last.op = "add"
    /\ last.raised = "ValueError"
    /\ last.content = "  "
    /\ \E id \in DOMAIN entries[last.store] :
          \E i \in 1..Len(Entry(last.store, id).topics) :
              Entry(last.store, id).topics[i] \in DOMAIN subscriptions[last.store]

---------------------------------------------------------------------------
\* SpecEdit: one store holding one entry, with at most one subscriber; the
\* entry is updated field by field, and so is an id the store does not hold.

\* test_update_nonexistent: update("nonexistent", content="New")
Nonexistent == Hash("nonexistent", "", 0)

\* the arguments of the update calls
Updates ==
    { EmptyMap,
      [content |-> " c2 "], [content |-> "  "],
      [category |-> "Todo"], [category |-> "bogus"],
      [topics |-> <<"A">>],
      [confidence |-> 12],
      [metadata |-> [k2 |-> "v2"]], [metadata |-> [k1 |-> "w1"]] }

DoSubscribeOne ==
    /\ subscriptions["A"] = EmptyMap
    /\ Subscribe("A", "A", "cb1")

DoAddOne ==
    \E category \in {"finding", "bogus"} :
        /\ entries["A"] = EmptyMap
        /\ Add("A", "c1", category, <<"x">>, 8, None, <<>>, [k1 |-> "v1"])

DoEdit ==
    \E id \in DOMAIN entries["A"] \cup {Nonexistent}, upd \in Updates :
        Update("A", id, upd)

NextEdit ==
    \/ Tick
    \/ DoSubscribeOne
    \/ DoAddOne
    \/ DoEdit

SpecEdit == Init /\ [][NextEdit]_vars

\* C13: every entry in the mapping of a store has content that is neither
\* empty nor whitespace.
C13_ContentNeverEmpty ==
    \A s \in Stores : \A id \in DOMAIN entries[s] :
        Entry(s, id).content # "" /\ Strip(Entry(s, id).content) # ""

\* C14: every entry in the mapping of a store has a category of CATEGORIES.
C14_CategoryInClosedSet ==
    \A s \in Stores : \A id \in DOMAIN entries[s] :
        Entry(s, id).category \in CATEGORIES

\* C15: update with an id that is not in the mapping returns None, changes
\* neither the entries nor the mapping nor the graph nor the sync log, and
\* calls no callback.
C15_UpdateUnknownIdChangesNothing ==
    [][(last'.op = "update" /\ last'.id \notin DOMAIN entries[last'.store]) =>
         /\ ~last'.found
         /\ last'.notified = <<>>
         /\ UNCHANGED <<heap, entries, nheap, nodes, eheap, edges, sync_log, subscriptions>>
      ]_vars

\* an update of an unknown id has returned None in a store that holds an
\* entry and a subscriber
C15_Witness ==
    /\ last.op = "update"
    /\ ~last.found
    /\ last.id = Nonexistent
    /\ "content" \in DOMAIN last.args
    /\ entries[last.store] # EmptyMap
    /\ subscriptions[last.store] # EmptyMap

\* C16: update of an id in the mapping leaves the mapping and every other
\* entry as they were; content, category, topics and confidence keep their
\* value when the argument is left out; id, source, created time, expiry
\* and references are never changed; metadata keeps the keys that are not
\* supplied and takes the supplied value for each supplied key.
C16_UpdateChangesSuppliedFieldsOnly ==
    [][(last'.op = "update" /\ last'.found) =>
         LET s == last'.store
             id == last'.id
             a == last'.args
         IN  /\ id \in DOMAIN entries[s]
             /\ entries' = entries
             /\ \A r \in DOMAIN heap : r # entries[s][id] => heap'[r] = heap[r]
             /\ LET old == heap[entries[s][id]]
                    new == heap'[entries[s][id]]
                IN  /\ "content" \notin DOMAIN a => new.content = old.content
                    /\ "category" \notin DOMAIN a => new.category = old.category
                    /\ "topics" \notin DOMAIN a => new.topics = old.topics
                    /\ "confidence" \notin DOMAIN a => new.confidence = old.confidence
                    /\ new.entry_id = old.entry_id
                    /\ new.source = old.source
                    /\ new.created = old.created
                    /\ new.expires = old.expires
                    /\ new.references = old.references
                    /\ "metadata" \notin DOMAIN a => new.metadata = old.metadata
                    /\ "metadata" \in DOMAIN a =>
                          /\ DOMAIN new.metadata = DOMAIN old.metadata \cup DOMAIN a.metadata
                          /\ \A k \in DOMAIN a.metadata : new.metadata[k] = a.metadata[k]
                          /\ \A k \in DOMAIN old.metadata \ DOMAIN a.metadata :
                                new.metadata[k] = old.metadata[k]
      ]_vars

\* an update that supplied metadata with a new key has left the old key, the
\* new key and the content of the entry
C16_Witness ==
    /\ last.op = "update"
    /\ last.found
    /\ "metadata" \in DOMAIN last.args
    /\ "k2" \in DOMAIN last.args.metadata
    /\ Entry(last.store, last.id).metadata = [k1 |-> "v1", k2 |-> "v2"]
    /\ Entry(last.store, last.id).content = "c1"

---------------------------------------------------------------------------
\* The updated timestamp, stated for the update steps of Spec, where the
\* entries of a store are its own or were received by sync or import.  All
\* timestamps are readings of the clock now, which never goes back.

\* C17: an update of an entry in the mapping sets its updated timestamp to
\* the time of the call, which is not earlier than the updated timestamp
\* the entry had and not earlier than its created timestamp.
C17_UpdatedAdvances ==
    [][(last'.op = "update" /\ last'.found) =>
         LET old == heap[entries[last'.store][last'.id]]
             new == heap'[entries'[last'.store][last'.id]]
         IN  /\ new.updated = now
             /\ new.updated >= old.updated
             /\ new.updated >= new.created
      ]_vars

\* an entry written by the other store and received by a merge has been
\* updated later than it was created
C17_Witness ==
    /\ last.op = "update"
    /\ last.found
    /\ Entry(last.store, last.id).source # Agent(last.store)
    /\ Entry(last.store, last.id).updated > Entry(last.store, last.id).created

---------------------------------------------------------------------------
\* SpecGrow: the calls of SpecTopics on entries with two topics, so that the
\* graphs have edges: store A writes, updates, deletes, sweeps and merges
\* store B in, store B writes one entry that expires.

DoAddLinked ==
    \/ /\ Add("A", "c1", "FACT", <<"a", "B">>, 8, None, <<>>, EmptyMap)
       /\ Bounded'
    \/ /\ "b" \notin DOMAIN nodes["B"]
       /\ Add("B", "c1", "FACT", <<"b", "a">>, 8, 1, <<>>, EmptyMap)
       /\ Bounded'

NextGrow ==
    \/ TickLate
    \/ DoAddLinked
    \/ DoUpdateTopics
    \/ DoDelete
    \/ DoCleanupExpired
    \/ DoSyncTopics
    \/ DoImportTopics

SpecGrow == Init /\ [][NextGrow]_vars

\* C18: no call of add, update, delete, cleanup_expired, sync or
\* import_from_sync takes a node or an edge out of a graph or lowers a
\* reference count: the nodes of before are nodes after with a count that
\* is not lower, the edges of before are at their positions after, joining
\* the same topics; delete and cleanup_expired leave every graph as it was.
C18_GraphOnlyGrows ==
    [][\A s \in Stores :
         /\ DOMAIN nodes[s] \subseteq DOMAIN nodes'[s]
         /\ \A t \in DOMAIN nodes[s] :
               nheap'[nodes'[s][t]].references >= nheap[nodes[s][t]].references
         /\ Len(edges'[s]) >= Len(edges[s])
         /\ \A k \in 1..Len(edges[s]) :
               /\ eheap'[edges'[s][k]].source = eheap[edges[s][k]].source
               /\ eheap'[edges'[s][k]].target = eheap[edges[s][k]].target
         /\ last'.op \in {"delete", "cleanup_expired"} =>
               /\ NodesOf(s)' = NodesOf(s)
               /\ EdgeList(s)' = EdgeList(s)
      ]_vars

\* a delete has emptied the mapping of a store whose graph, grown by a
\* merge, has two edges
C18_Witness ==
    /\ last.op = "delete"
    /\ last.result
    /\ entries[last.store] = EmptyMap
    /\ Cardinality(DOMAIN nodes[last.store]) = 2
    /\ Len(edges[last.store]) = 2

---------------------------------------------------------------------------
\* SpecLog: store A merges store B in again and again, by sync and by
\* import, and saves by sync(); store B holds one entry.

\* store A calls sync(B) up to MaxCalls times
MaxCalls == 101

\* _save: "json.dump(self._sync_log[-100:], ...)"
SyncLogKept == 100

\* the sync-log document that _save writes for store s
SavedSyncLog(s) ==
    LET n == Len(sync_log[s])
    IN  IF n <= SyncLogKept THEN sync_log[s] ELSE SubSeq(sync_log[s], n - SyncLogKept + 1, n)

\* get_stats()["sync_count"]
SyncCount(s) == Len(sync_log[s])

DoSeedLog ==
    /\ entries["B"] = EmptyMap
    /\ Add("B", "c1", "FACT", <<>>, 8, None, <<>>, EmptyMap)

DoSyncLog ==
    /\ Len(sync_log["A"]) < MaxCalls
    /\ Sync("A", "B")

DoSyncAlone ==
    SyncNone("A")

DoImportLog ==
    ImportFromSync("A", ExportOf("B", now))

NextLog ==
    \/ DoSeedLog
    \/ DoSyncLog
    \/ DoSyncAlone
    \/ DoImportLog

SpecLog == Init /\ [][NextLog]_vars

\* C19: the sync log a store holds, whose length get_stats reports as
\* sync_count, has at most 100 records.
C19_SyncLogBounded ==
    \A s \in Stores : Len(sync_log[s]) <= SyncLogKept /\ SyncCount(s) <= SyncLogKept

\* C20: s.sync(o) appends one record to the sync log of s and leaves the
\* logs of the other stores; the record carries the agent of s, the agent
\* of o and the counts the call returns.  import_from_sync and sync()
\* without another store leave every sync log as it was.
C20_SyncAppendsOneRecord ==
    [][/\ (last'.op = "sync" /\ last'.other # "") =>
            LET s == last'.store
                n == Len(sync_log[s])
            IN  /\ Len(sync_log'[s]) = n + 1
                /\ SubSeq(sync_log'[s], 1, n) = sync_log[s]
                /\ sync_log'[s][n + 1].agent = Agent(s)
                /\ sync_log'[s][n + 1].synced_with = Agent(last'.other)
                /\ sync_log'[s][n + 1].stats = last'.stats
                /\ \A o \in Stores \ {s} : sync_log'[o] = sync_log[o]
       /\ (last'.op = "import_from_sync" \/ (last'.op = "sync" /\ last'.other = "")) =>
            sync_log' = sync_log
      ]_vars

\* store A has merged store B in twice: the first record counts one entry
\* added, the second the same entry as a conflict
C20_Witness ==
    /\ last.op = "sync"
    /\ last.other = "B"
    /\ Len(sync_log["A"]) = 2
    /\ sync_log["A"][1].stats.added = 1
    /\ sync_log["A"][2] = [timestamp |-> IsoFormat(now), agent |-> "AGENT1", synced_with |-> "AGENT2",
                           stats |-> [added |-> 0, updated |-> 0, conflicts |-> 1]]

---------------------------------------------------------------------------
\* Expiry, stated for SpecTopics, where store A holds a lasting entry of its
\* own and, by a merge, the entry of store B that expires after a day.

\* C29: at every instant, is_expired of an entry is false exactly when the
\* entry has no expires or its expires is later than the instant.
C29_ExpiredIffNotInFuture ==
    \A s \in Stores : \A id \in DOMAIN entries[s] :
        (~IsExpired(Entry(s, id), now)) <=>
            (Entry(s, id).expires = None \/ Entry(s, id).expires > now)

\* C28: cleanup_expired takes out of the mapping exactly the entries for
\* which is_expired holds at the sweep and returns their number; the other
\* entries stay as they were, and right after the sweep is_expired holds
\* for no entry of the mapping.
C28_CleanupRemovesExactlyExpired ==
    [][last'.op = "cleanup_expired" =>
         LET s == last'.store
             gone == {id \in DOMAIN entries[s] : IsExpired(heap[entries[s][id]], now)}
         IN  /\ DOMAIN entries'[s] = DOMAIN entries[s] \ gone
             /\ last'.result = Cardinality(gone)
             /\ \A id \in DOMAIN entries'[s] :
                   /\ heap'[entries'[s][id]] = heap[entries[s][id]]
                   /\ ~IsExpired(heap'[entries'[s][id]], now')
      ]_vars

\* a sweep has removed one entry and kept another
C28_Witness ==
    /\ last.op = "cleanup_expired"
    /\ last.result = 1
    /\ entries[last.store] # EmptyMap

---------------------------------------------------------------------------
\* SpecClear: store A fills its mapping, its graph and its sync log and is
\* cleared, with and without confirmation.

DoClear ==
    \E confirm \in BOOLEAN : Clear("A", confirm)

NextClear ==
    \/ TickLate
    \/ DoAddLinked
    \/ DoSyncTopics
    \/ DoClear

SpecClear == Init /\ [][NextClear]_vars

\* C27: clear without confirmation returns False and leaves the entries,
\* the graph and the sync log as they were; clear with confirmation returns
\* True and leaves the mapping, the nodes, the edges and the sync log of the
\* store empty.
C27_ClearNeedsConfirmation ==
    [][last'.op = "clear" =>
         LET s == last'.store
         IN  /\ last'.result = last'.confirm
             /\ ~last'.confirm =>
                   UNCHANGED <<heap, entries, nheap, nodes, eheap, edges, sync_log>>
             /\ last'.confirm =>
                   /\ entries'[s] = EmptyMap
                   /\ nodes'[s] = EmptyMap
                   /\ edges'[s] = <<>>
                   /\ sync_log'[s] = <<>>
      ]_vars

\* a clear without confirmation has returned False in a store that holds
\* two entries, two edges and a sync record
C27_Witness ==
    /\ last.op = "clear"
    /\ ~last.result
    /\ Cardinality(DOMAIN entries[last.store]) = 2
    /\ Len(edges[last.store]) = 2
    /\ Len(sync_log[last.store]) = 1

---------------------------------------------------------------------------
\* Serialization, stated for the entries of SpecEdit: an entry as add has
\* made it and as the updates have left it.

\* C30: from_dict(to_dict(e)) equals e field for field, for every entry a
\* store holds.
C30_RoundTrip ==
    \A s \in Stores : \A id \in DOMAIN entries[s] :
        FromDict(ToDict(Entry(s, id)), now) = Entry(s, id)

---------------------------------------------------------------------------
\* SpecSubs: one store whose callbacks, one of which raises, subscribe and
\* unsubscribe while an entry is added and updated.

DoUnsubscribe ==
    \E topic \in {"X", "latency"}, callback \in {"cb1", "cb2"} :
        Unsubscribe("A", topic, callback)

DoAddNotify ==
    \E topics \in {<<"x">>, <<"x", "latency">>, <<"x", "x">>} :
        /\ entries["A"] = EmptyMap
        /\ Add("A", "c1", "FACT", topics, 8, None, <<>>, EmptyMap)

DoUpdateNotify ==
    \E id \in DOMAIN entries["A"] : Update("A", id, [confidence |-> 9])

NextSubs ==
    \/ Tick
    \/ DoSubscribe
    \/ DoUnsubscribe
    \/ DoAddNotify
    \/ DoUpdateNotify

SpecSubs == Init /\ [][NextSubs]_vars

\* the calls due when store s notifies of entry e, which has one or two
\* topics: every callback subscribed to the first topic, then every
\* callback subscribed to the second, each in the order of subscription
DueFor(s, topic) == IF topic \in DOMAIN subscriptions[s] THEN subscriptions[s][topic] ELSE <<>>
Due(s, e) ==
    LET t1 == [k \in 1..Len(DueFor(s, e.topics[1])) |-> <<e.topics[1], DueFor(s, e.topics[1])[k]>>]
        t2 == IF Len(e.topics) < 2 THEN <<>>
              ELSE [k \in 1..Len(DueFor(s, e.topics[2])) |->
                      <<e.topics[2], DueFor(s, e.topics[2])[k]>>]
    IN  t1 \o t2

\* C25: an add or an update of an entry for which a callback raises stays
\* done (the entry is in the mapping with the updated timestamp of the
\* call, its topics are nodes after an add), returns its entry, and has
\* called every callback that was due, the ones after the raising callback
\* included.
C25_CallbackFailureIsCaught ==
    [][((last'.op = "add" /\ last'.raised = "") \/ (last'.op = "update" /\ last'.found)) =>
         LET s == last'.store
             id == last'.id
         IN  /\ id \in DOMAIN entries'[s]
             /\ heap'[entries'[s][id]].updated = now
             /\ last'.op = "add" =>
                   \A i \in 1..Len(heap'[entries'[s][id]].topics) :
                       heap'[entries'[s][id]].topics[i] \in DOMAIN nodes'[s]
             /\ Len(last'.notified) = Len(Due(s, heap'[entries'[s][id]]))
             /\ \A k \in 1..Len(last'.notified) :
                   /\ <<last'.notified[k].topic, last'.notified[k].callback>>
                         = Due(s, heap'[entries'[s][id]])[k]
                   /\ last'.notified[k].entry_id = id
                   /\ last'.notified[k].outcome \in {"returned", "caught"}
      ]_vars

\* an add has called a callback that raised and, after it, a callback that
\* returned; the entry is in the mapping
C25_Witness ==
    /\ last.op = "add"
    /\ last.raised = ""
    /\ last.id \in DOMAIN entries[last.store]
    /\ Len(last.notified) = 2
    /\ last.notified[1].outcome = "caught"
    /\ last.notified[2].outcome = "returned"

\* C26: a callback that unsubscribe has removed from a topic, returning
\* True, is not called for that topic by a later add or update unless it
\* has subscribed to the topic again; unsubscribe of a callback that is not
\* registered for the topic returns False and changes nothing.
C26_UnsubscribedNotInvoked ==
    [][/\ last'.op \in {"add", "update"} =>
            \A k \in 1..Len(last'.notified) :
                <<last'.notified[k].topic, last'.notified[k].callback>>
                    \notin unsubscribed[last'.store]
       /\ (last'.op = "unsubscribe" /\ ~last'.result) =>
            UNCHANGED <<heap, entries, nheap, nodes, eheap, edges, sync_log, subscriptions>>
      ]_vars

---------------------------------------------------------------------------
\* SpecRelated: the graph of one store is built edge by edge, in both
\* directions, and asked for the topics related to a topic.

\* get_related is asked for up to MaxDepth hops
MaxDepth == 3

\* get_related: one pass of "for _ in range(depth)" and the passes after it;
\* E is the edge list by value, d the number of passes left
RECURSIVE RelatedLevelsDirected(_, _, _, _, _)
RelatedLevelsDirected(E, related, visited, current_level, d) ==
    IF d <= 0 THEN related
    ELSE LET next_level ==
                 {E[k].target : k \in {k \in 1..Len(E) :
                     E[k].source \in current_level /\ E[k].target \notin visited}}
         IN  IF next_level = {} THEN related
             ELSE RelatedLevelsDirected(E, related \cup next_level, visited \cup next_level,
                                        next_level, d - 1)
RECURSIVE RelatedLevels(_, _, _, _, _)
RelatedLevels(E, related, visited, current_level, d) ==
    IF d <= 0 THEN related
    ELSE LET next_level ==
                 UNION {UNION {IF E[k].source = node /\ E[k].target \notin visited
                               THEN {E[k].target}
                               ELSE IF E[k].target = node /\ E[k].source \notin visited
                               THEN {E[k].source}
                               ELSE {} : k \in 1..Len(E)} : node \in current_level}
         IN  IF next_level = {} THEN related
             ELSE RelatedLevels(E, related \cup next_level, visited \cup next_level,
                                next_level, d - 1)

\* passes that take every neighbour of the current level, visited or not
RECURSIVE RelatedRingsRevisiting(_, _, _, _)
RelatedRingsRevisiting(E, visited, current_level, d) ==
    IF d <= 0 THEN <<>>
    ELSE LET next_level ==
                 UNION {UNION {IF E[k].source = node THEN {E[k].target}
                               ELSE IF E[k].target = node THEN {E[k].source}
                               ELSE {} : k \in 1..Len(E)} : node \in current_level}
         IN  IF next_level = {} THEN <<next_level>>
             ELSE <<next_level>> \o RelatedRingsRevisiting(E, visited \cup next_level,
                                                           next_level, d - 1)

\* get_related: the value of next_level in each pass of "for _ in
\* range(depth)" that runs, in order; the pass that finds next_level empty
\* is the last ("if not current_level: break")
RECURSIVE RelatedRings(_, _, _, _)
RelatedRings(E, visited, current_level, d) ==
    IF d <= 0 THEN <<>>
    ELSE LET next_level ==
                 UNION {UNION {IF E[k].source = node /\ E[k].target \notin visited
                               THEN {E[k].target}
                               ELSE IF E[k].target = node /\ E[k].source \notin visited
                               THEN {E[k].source}
                               ELSE {} : k \in 1..Len(E)} : node \in current_level}
         IN  IF next_level = {} THEN <<next_level>>
             ELSE <<next_level>> \o RelatedRings(E, visited \cup next_level,
                                                 next_level, d - 1)

\* KnowledgeGraph.get_related, on the graph of store s
GetRelatedOf(s, topic0, depth) ==
    LET topic == Lower(topic0)
    IN  IF topic \notin DOMAIN nodes[s] THEN {}
        ELSE RelatedLevels(EdgeList(s), {}, {topic}, {topic}, depth)

\* the calls of add_edge: a chain a - b - c - d whose middle edge points
\* backwards, an edge from a to itself, and an edge from c to a that closes
\* the cycle a - b - c
Links == {<<"a", "B">>, <<"c", "b">>, <<"c", "d">>, <<"a", "a">>, <<"c", "a">>}

DoLink ==
    \E link \in Links :
        /\ \A k \in 1..Len(edges["A"]) :
              ~EdgeMatches(EdgeList("A")[k], Lower(link[1]), Lower(link[2]))
        /\ GraphAddEdge("A", link[1], link[2], "related_to", DefaultWeight)

DoGetRelated ==
    \E topic \in {"a", "A", "b", "d", "z"}, depth \in 0..MaxDepth :
        /\ last' = [op |-> "get_related", store |-> "A", topic |-> topic, depth |-> depth,
                    result |-> GetRelatedOf("A", topic, depth),
                    rings |-> IF Lower(topic) \in DOMAIN nodes["A"]
                              THEN RelatedRings(EdgeList("A"), {Lower(topic)},
                                                {Lower(topic)}, depth)
                              ELSE <<>>]
        /\ UNCHANGED <<now, heap, entries, nheap, nodes, eheap, edges, sync_log, payload, subscriptions, unsubscribed, shared>>

NextRelated ==
    \/ DoLink
    \/ DoGetRelated

SpecRelated == Init /\ [][NextRelated]_vars

\* the topics that a path of at most n edges of store s, taken in either
\* direction, joins to the topic a
RECURSIVE Near(_, _, _)
Near(s, a, n) ==
    IF n <= 0 THEN {a}
    ELSE LET inner == Near(s, a, n - 1)
         IN  inner \cup {t \in DOMAIN nodes[s] :
                           \E u \in inner : Joining(s, t, u) # {}}

\* C24: get_related(topic, depth) returns the topics at 1 to depth edges
\* from the lowercased topic, the edges taken in either direction, without
\* the topic itself, and the empty set for a topic that is no node.
C24_RelatedIsDistanceBall ==
    last.op = "get_related" =>
        LET origin == Lower(last.topic)
        IN  /\ origin \notin last.result
            /\ origin \notin DOMAIN nodes[last.store] => last.result = {}
            /\ origin \in DOMAIN nodes[last.store] =>
                  last.result = Near(last.store, origin, last.depth) \ {origin}

\* from a, asked in capitals, two hops reach b and, against its edge, c, and
\* not d, which is three hops away
C24_Witness ==
    /\ last.op = "get_related"
    /\ last.topic = "A"
    /\ last.depth = 2
    /\ last.result = {"b", "c"}
    /\ "d" \in DOMAIN nodes[last.store]

---------------------------------------------------------------------------
\* SpecQuery: one store adds entries that differ in content, category,
\* topics, confidence and expiry, and is queried while the clock moves on.

\* Python's "q in text" for the strings of the model
In(q, text) == q = "" \/ q = text \/ <<q, text>> \in {<<"find", "finding">>}

\* KnowledgeEntry.matches_query
MatchesQuery(e, query) ==
    LET query_lower == Lower(query)
    IN  \/ In(query_lower, Lower(e.content))
        \/ \E i \in 1..Len(e.topics) : In(query_lower, e.topics[i])
        \/ In(query_lower, Lower(e.category))

\* query: expanded_topics.  An argument left out is "" or <<>>, which the
\* code treats as None.
ExpandedAlways(s, q) ==
    LET asked == {Lower(q.topics[i]) : i \in 1..Len(q.topics)}
    IN  asked \cup UNION {GetRelatedOf(s, t, 1) : t \in asked}
Expanded(s, q) ==
    LET asked == {Lower(q.topics[i]) : i \in 1..Len(q.topics)}
    IN  IF q.include_related /\ asked # {}
        THEN asked \cup UNION {GetRelatedOf(s, t, 1) : t \in asked}
        ELSE asked

\* query: the body of "for entry in self.entries.values()", true when the
\* entry is appended to results
QualifiesAnyFilter(s, e, q) ==
    /\ ~IsExpired(e, now)
    /\ \/ q.source # "" /\ e.source = Upper(q.source)
       \/ q.category # "" /\ e.category = Upper(q.category)
       \/ e.confidence >= q.min_confidence
       \/ Expanded(s, q) # {} /\ {e.topics[i] : i \in 1..Len(e.topics)} \cap Expanded(s, q) # {}
       \/ q.search # "" /\ MatchesQuery(e, q.search)
Qualifies(s, e, q) ==
    /\ ~IsExpired(e, now)
    /\ ~(q.source # "" /\ e.source # Upper(q.source))
    /\ ~(q.category # "" /\ e.category # Upper(q.category))
    /\ ~(e.confidence < q.min_confidence)
    /\ ~(Expanded(s, q) # {} /\ {e.topics[i] : i \in 1..Len(e.topics)} \cap Expanded(s, q) = {})
    /\ ~(q.search # "" /\ ~MatchesQuery(e, q.search))

\* results.sort(key=lambda e: (e.confidence, e.updated), reverse=True): a
\* may stand before b
BeforeByConfidence(a, b) == a.confidence >= b.confidence
Before(a, b) ==
    \/ a.confidence > b.confidence
    \/ a.confidence = b.confidence /\ a.updated >= b.updated

\* the orders the sort can leave the entries ids of store s in; entries
\* with equal keys keep the order of the mapping, which is any order here
Sorted(s, ids) ==
    {seq \in [1..Cardinality(ids) -> ids] :
        /\ \A i, j \in 1..Cardinality(ids) : i # j => seq[i] # seq[j]
        /\ \A i, j \in 1..Cardinality(ids) : i < j => Before(Entry(s, seq[i]), Entry(s, seq[j]))}

\* results[:limit]
Take(seq, limit) ==
    IF limit >= 0 THEN SubSeq(seq, 1, Min(limit, Len(seq)))
    ELSE SubSeq(seq, 1, Max(Len(seq) + limit, 0))

\* the entries added: content, category, topics, confidence, days to live
Items ==
    { <<"c1", "finding", <<"a", "B">>, 9, None>>,
      <<" c2 ", "fact", <<"b">>, 9, 1>>,
      <<"c3", "fact", <<"d">>, 5, None>> }

\* the arguments of the calls of query
NoFilter ==
    [search |-> "", source |-> "", category |-> "", topics |-> <<>>,
     min_confidence |-> 0, limit |-> 50, include_related |-> FALSE]
Queries ==
    { NoFilter,
      [NoFilter EXCEPT !.search = "c1"],
      [NoFilter EXCEPT !.search = "Find"],
      [NoFilter EXCEPT !.search = "b"],
      [NoFilter EXCEPT !.source = "agent1"],
      [NoFilter EXCEPT !.source = "AGENT2"],
      [NoFilter EXCEPT !.category = "finding"],
      [NoFilter EXCEPT !.min_confidence = 9],
      [NoFilter EXCEPT !.topics = <<"A">>],
      [NoFilter EXCEPT !.topics = <<"A">>, !.include_related = TRUE],
      [NoFilter EXCEPT !.topics = <<"d", "zzz">>, !.include_related = TRUE],
      [NoFilter EXCEPT !.include_related = TRUE],
      [NoFilter EXCEPT !.category = "fact", !.min_confidence = 9],
      [NoFilter EXCEPT !.search = "b", !.category = "finding"],
      [NoFilter EXCEPT !.source = "agent1", !.topics = <<"b">>, !.search = "c1"],
      [NoFilter EXCEPT !.limit = 0],
      [NoFilter EXCEPT !.limit = 1],
      [NoFilter EXCEPT !.limit = 1, !.min_confidence = 9] }

DoAddItem ==
    \E item \in Items :
        /\ Add("A", item[1], item[2], item[3], item[4], item[5], <<>>, EmptyMap)
        /\ Bounded'

\* KnowledgeSync.query; the result is the ids of the entries returned, in
\* order
DoQuery ==
    \E q \in Queries :
        \E seq \in Sorted("A", {id \in DOMAIN entries["A"] : Qualifies("A", Entry("A", id), q)}) :
            /\ last' = [op |-> "query", store |-> "A", args |-> q, result |-> Take(seq, q.limit)]
            /\ UNCHANGED <<now, heap, entries, nheap, nodes, eheap, edges, sync_log, payload, subscriptions, unsubscribed, shared>>

NextQuery ==
    \/ TickLate
    \/ DoAddItem
    \/ DoQuery

SpecQuery == Init /\ [][NextQuery]_vars

\* Properties of query, stated for the state right after a call.  An entry
\* is expired when is_expired says so at the time of the call, and the
\* limits asked for are 0, 1 and the default.

\* the ids a query has returned; the topics of an entry; the topics one
\* edge away from topic t in store s; the topics a query filters with
Returned == {last.result[i] : i \in 1..Len(last.result)}
TopicSet(e) == {e.topics[i] : i \in 1..Len(e.topics)}
Neighbours(s, t) == IF t \in DOMAIN nodes[s] THEN Near(s, t, 1) \ {t} ELSE {}
FilterSet(s, q) ==
    LET T == {Lower(q.topics[i]) : i \in 1..Len(q.topics)}
    IN  IF q.include_related THEN T \cup UNION {Neighbours(s, t) : t \in T} ELSE T

\* entry e of store s passes every filter that query q gives
Passes(s, e, q) ==
    /\ q.source # "" => e.source = Upper(q.source)
    /\ q.category # "" => e.category = Upper(q.category)
    /\ e.confidence >= q.min_confidence
    /\ q.search # "" => MatchesQuery(e, q.search)
    /\ q.topics # <<>> => TopicSet(e) \cap FilterSet(s, q) # {}

\* entry a ranks strictly above entry b
Above(a, b) ==
    \/ a.confidence > b.confidence
    \/ a.confidence = b.confidence /\ a.updated > b.updated

\* C21: query returns entries of the mapping that are not expired and pass
\* every given filter, each once, and as many of them as the limit allows:
\* all of them when the limit is not below their number.  Without a filter
\* every entry that is not expired passes.
C21_QueryReturnsQualifying ==
    last.op = "query" =>
        LET s == last.store
            q == last.args
            Q == {id \in DOMAIN entries[s] :
                     ~IsExpired(Entry(s, id), now) /\ Passes(s, Entry(s, id), q)}
        IN  /\ Returned \subseteq Q
            /\ Cardinality(Returned) = Len(last.result)
            /\ Len(last.result) = Min(q.limit, Cardinality(Q))
            /\ [q EXCEPT !.limit = 0] = [NoFilter EXCEPT !.limit = 0] =>
                  Q = {id \in DOMAIN entries[s] : ~IsExpired(Entry(s, id), now)}

\* a query without filter has returned one of the two entries of the
\* store, the other one being expired
C21_Witness ==
    /\ last.op = "query"
    /\ last.args = NoFilter
    /\ Cardinality(DOMAIN entries[last.store]) = 2
    /\ Len(last.result) = 1
    /\ \E id \in DOMAIN entries[last.store] : IsExpired(Entry(last.store, id), now)

\* C22: the sequence query returns has at most limit elements, is ordered
\* by confidence descending and, among equal confidences, by updated
\* descending, and no entry that qualifies and was left out ranks above a
\* returned one.
C22_QueryOrderedAndTruncated ==
    last.op = "query" =>
        LET s == last.store
            q == last.args
            r == last.result
            Q == {id \in DOMAIN entries[s] :
                     ~IsExpired(Entry(s, id), now) /\ Passes(s, Entry(s, id), q)}
        IN  /\ Len(r) <= q.limit
            /\ \A i, j \in 1..Len(r) : i < j => ~Above(Entry(s, r[j]), Entry(s, r[i]))
            /\ \A id \in Q \ Returned : \A i \in 1..Len(r) :
                  ~Above(Entry(s, id), Entry(s, r[i]))

\* a query with limit 1 has returned the later updated of two entries of
\* equal confidence
C22_Witness ==
    /\ last.op = "query"
    /\ last.args = [NoFilter EXCEPT !.limit = 1]
    /\ Len(last.result) = 1
    /\ \E id \in DOMAIN entries[last.store] :
          /\ ~IsExpired(Entry(last.store, id), now)
          /\ Entry(last.store, id).confidence = Entry(last.store, last.result[1]).confidence
          /\ Entry(last.store, id).updated < Entry(last.store, last.result[1]).updated

\* C23: a query for topics T with include_related returns only entries that
\* carry a topic of T or a topic one edge away from a topic of T, and
\* without include_related only entries that carry a topic of T; when it
\* gives no other filter it returns all such entries that are not expired.
C23_QueryIncludeRelated ==
    (last.op = "query" /\ last.args.topics # <<>>) =>
        LET s == last.store
            q == last.args
            T == {Lower(q.topics[i]) : i \in 1..Len(q.topics)}
            F == IF q.include_related THEN T \cup UNION {Neighbours(s, t) : t \in T} ELSE T
        IN  /\ \A id \in Returned : TopicSet(Entry(s, id)) \cap F # {}
            /\ q = [NoFilter EXCEPT !.topics = q.topics, !.include_related = q.include_related] =>
                  Returned = {id \in DOMAIN entries[s] :
                                 /\ ~IsExpired(Entry(s, id), now)
                                 /\ TopicSet(Entry(s, id)) \cap F # {}}

\* the query for the topic a with include_related has returned the entry on
\* a and b and the entry on b
C23_Witness ==
    /\ last.op = "query"
    /\ last.args = [NoFilter EXCEPT !.topics = <<"A">>, !.include_related = TRUE]
    /\ {Entry(last.store, id).topics : id \in Returned} = {<<"a", "b">>, <<"b">>}

---------------------------------------------------------------------------
\* Properties of SpecGraphMerge on the nodes a merge brings in.

\* C33: after a merge of o into s, in either form, the nodes of s are its
\* old nodes and the incoming ones; an incoming topic that s did not have is
\* a node of s with the incoming metadata and the incoming reference count,
\* not raised; a topic that s had keeps the metadata and the count of s.
C33_MergeAddsAbsentNodesOnly ==
    [][\A s \in Peers, o \in Peers :
         IsMerge(s, o) =>
           /\ DOMAIN nodes'[s] = DOMAIN nodes[s] \cup DOMAIN nodes[o]
           /\ \A t \in DOMAIN nodes[o] \ DOMAIN nodes[s] :
                 NodesOf(s)'[t] = NodesOf(o)[t]
           /\ \A t \in DOMAIN nodes[s] : NodesOf(s)'[t] = NodesOf(s)[t]
      ]_vars

\* store A has just merged store B, whose node "a" counts 4 references, and
\* keeps its own count of 2 for that node; the node "b" is held likewise
C33_Witness ==
    /\ last.op \in {"sync", "import_from_sync"}
    /\ last.store = "A"
    /\ {"a", "b"} \subseteq DOMAIN nodes["A"] \cap DOMAIN nodes["B"]
    /\ NodesOf("A")["a"].references = 2
    /\ NodesOf("B")["a"].references = 4

---------------------------------------------------------------------------
\* Properties of SpecGraph on the reference counts.

\* KnowledgeSync.get_topics: the count it reports for a topic, 0 for a topic
\* it does not list
GetTopicsCount(s, t) ==
    IF t \in DOMAIN nodes[s] THEN nheap[nodes[s][t]].references ELSE 0

\* the number of positions of the sequence that hold x
Occurrences(seq, x) == Cardinality({i \in 1..Len(seq) : seq[i] = x})

\* C35: an add_node raises the count of its lowercased topic by one and no
\* other count, whether the node existed or not; an add_edge does so for its
\* source and for its target; a store add of an entry with n pairwise
\* different topics raises the count get_topics reports for each of them by
\* n and no other count.
C35_ReferencesCountAddNodeCalls ==
    [][\A s \in Stores : \A t \in DOMAIN nodes'[s] :
         /\ (last'.op = "add_node" /\ last'.store = s) =>
               GetTopicsCount(s, t)' =
                   GetTopicsCount(s, t) + Occurrences(<<last'.topic>>, t)
         /\ (last'.op = "add_edge" /\ last'.store = s) =>
               GetTopicsCount(s, t)' =
                   GetTopicsCount(s, t) + Occurrences(<<last'.source, last'.target>>, t)
         /\ (last'.op = "add" /\ last'.store = s /\ last'.raised = "") =>
               LET topics == heap'[entries'[s][last'.id]].topics
               IN  (\A i, j \in 1..Len(topics) : topics[i] = topics[j] => i = j) =>
                      GetTopicsCount(s, t)' =
                          GetTopicsCount(s, t)
                            + (IF Occurrences(topics, t) = 1 THEN Len(topics) ELSE 0)
      ]_vars

\* an entry with the topics a and b has just been added to a graph that
\* already had the node a from one explicit add_node: a counts 3, b counts 2
C35_Witness ==
    /\ last.op = "add" /\ last.store = "A" /\ last.raised = ""
    /\ Len(heap[entries["A"][last.id]].topics) = 2
    /\ GetTopicsCount("A", "a") = 3
    /\ GetTopicsCount("A", "b") = 2
    /\ edges["A"] # <<>>

---------------------------------------------------------------------------
\* Properties of SpecAdd on the ids of the entries added.

\* the step is a successful add in store s
Added(s) == last'.op = "add" /\ last'.store = s /\ last'.raised = ""

\* a successful add in s puts its entry under the id and leaves the other
\* entries of s alone; the mapping grows by one unless the id was there
GrowsUnlessIdExists(s) ==
    /\ DOMAIN entries'[s] = DOMAIN entries[s] \cup {last'.id}
    /\ Cardinality(DOMAIN entries'[s]) =
          Cardinality(DOMAIN entries[s]) + (IF last'.id \in DOMAIN entries[s] THEN 0 ELSE 1)
    /\ \A id \in DOMAIN entries[s] \ {last'.id} : Entry(s, id)' = Entry(s, id)

\* C37: a successful add grows the mapping of the store by exactly one entry
\* unless the id was there, and the id was there exactly when the store
\* holds an entry created at the same instant whose content is the content
\* given, stripped of surrounding whitespace; two adds in a row in one store
\* whose stripped contents differ yield two ids.
C37_AddGrowsUnlessSameStrippedContent ==
    [][\A s \in Stores :
         Added(s) =>
           /\ GrowsUnlessIdExists(s)
           /\ last'.id = Hash(Strip(last'.content), Agent(s), now)
           /\ last'.id \in DOMAIN entries[s] <=>
                 \E id \in DOMAIN entries[s] :
                     /\ Entry(s, id).content = Strip(last'.content)
                     /\ Entry(s, id).created = now
           /\ (last.op = "add" /\ last.store = s /\ last.raised = ""
                 /\ Strip(last.content) # Strip(last'.content)) =>
                 last'.id # last.id
      ]_vars

\* C37 as stated, with the contents as they are given to add: two adds in
\* a row in one store whose contents differ yield two ids.
C37_AddGrowsUnlessSameContent ==
    [][\A s \in Stores :
         Added(s) =>
           /\ GrowsUnlessIdExists(s)
           /\ (last.op = "add" /\ last.store = s /\ last.raised = ""
                 /\ last.content # last'.content) =>
                 last'.id # last.id
      ]_vars

\* the content " c1 " has just been added with two topics for the second
\* time at one instant: both topics count four references, from two adds,
\* and the store holds one entry
C37_Witness ==
    /\ last.op = "add" /\ last.store = "A" /\ last.raised = ""
    /\ last.content = " c1 "
    /\ Cardinality(DOMAIN entries["A"]) = 1
    /\ GetTopicsCount("A", "x") = 4
    /\ GetTopicsCount("A", "latency") = 4

\* C38: s.sync(o) with another store o leaves o as it was: the ids and the
\* fields of its entries, the nodes and the edges of its graph, its sync log
\* and its subscriptions.
C38_SyncLeavesOtherUnmodified ==
    [][\A s \in Peers, o \in Peers :
         IsSync(s, o) =>
           /\ EntriesOf(o)' = EntriesOf(o)
           /\ NodesOf(o)' = NodesOf(o)
           /\ EdgeList(o)' = EdgeList(o)
           /\ sync_log'[o] = sync_log[o]
           /\ subscriptions'[o] = subscriptions[o]
      ]_vars

\* store A has just taken an entry from store B, which has nodes, an edge
\* and a record in its own sync log
C38_Witness ==
    /\ last.op = "sync" /\ last.store = "A" /\ last.other = "B"
    /\ last.stats.added = 1
    /\ entries["B"] # EmptyMap
    /\ edges["B"] # <<>>
    /\ Len(sync_log["B"]) = 1
    /\ Len(sync_log["A"]) = 1

---------------------------------------------------------------------------
\* Properties of SpecSubs on the order of the calls.

\* C32: an add or an update that succeeds has, when it returns, called the
\* callbacks topic by topic in the order of the entry's topic list and, for
\* each topic, in the order of registration: the calls for the first topic
\* come first and follow its list of callbacks, the calls for the second
\* follow; a callback is called once for each time it is registered for a
\* topic and each time the entry lists that topic.  (The callbacks of
\* SpecSubs leave the lists of subscribers alone.)
C32_CallbacksInTopicThenRegistrationOrder ==
    [][((last'.op = "add" /\ last'.raised = "") \/ (last'.op = "update" /\ last'.found)) =>
         LET s  == last'.store
             e  == heap'[entries'[s][last'.id]]
             n1 == Len(DueFor(s, e.topics[1]))
         IN  /\ \A k \in 1..Len(last'.notified) :
                   IF k <= n1
                   THEN /\ last'.notified[k].topic = e.topics[1]
                        /\ last'.notified[k].callback = DueFor(s, e.topics[1])[k]
                   ELSE /\ Len(e.topics) = 2
                        /\ last'.notified[k].topic = e.topics[2]
                        /\ last'.notified[k].callback = DueFor(s, e.topics[2])[k - n1]
             /\ \A t \in {"x", "latency"}, cb \in {"cb1", "cb2"} :
                   Cardinality({k \in 1..Len(last'.notified) :
                                   /\ last'.notified[k].topic = t
                                   /\ last'.notified[k].callback = cb})
                     = Occurrences(e.topics, t) * Occurrences(DueFor(s, t), cb)
             /\ subscriptions' = subscriptions
      ]_vars

\* an entry that lists the topic x twice has just been added while cb2 and
\* then cb1 were registered for x: the calls were cb2, cb1, cb2, cb1
C32_Witness ==
    /\ last.op = "add" /\ last.raised = ""
    /\ heap[entries["A"][last.id]].topics = <<"x", "x">>
    /\ "x" \in DOMAIN subscriptions["A"]
    /\ subscriptions["A"]["x"] = <<"cb2", "cb1">>
    /\ [k \in 1..Len(last.notified) |-> last.notified[k].callback]
          = <<"cb2", "cb1", "cb2", "cb1">>

---------------------------------------------------------------------------
\* SpecSelf: one store whose callbacks for the topic x are cb1, which
\* returns, and cb3, which unsubscribes itself from x when it is called,
\* while an entry on x is added and updated.

DoSubscribeSelf ==
    \E callback \in {"cb1", "cb3"} :
        /\ Subscribed("A", DOMAIN subscriptions["A"]) < MaxSubs
        /\ Subscribe("A", "X", callback)

NextSelf ==
    \/ Tick
    \/ DoSubscribeSelf
    \/ DoAddNotify
    \/ DoUpdateNotify

SpecSelf == Init /\ [][NextSelf]_vars

\* C39: in an add or an update of an entry that lists the topic x once,
\* with L the callbacks registered for x when the call begins: if no
\* callback of L changes the list, the calls are L, in order, none skipped,
\* and the list stays; if L[p] is the first callback of L that unsubscribes
\* itself from x, the calls up to it are L[1..p], the callback L[p+1]
\* registered right after it is skipped (the next call, if any, is L[p+2]),
\* and the list is shorter afterwards.
C39_SelfUnsubscribeSkipsNext ==
    [][((last'.op = "add" /\ last'.raised = "") \/ (last'.op = "update" /\ last'.found)) =>
         LET s == last'.store
             e == heap'[entries'[s][last'.id]]
             L == DueFor(s, "x")
             N == [k \in 1..Len(last'.notified) |-> last'.notified[k].callback]
             U == {j \in 1..Len(L) : Unsubscribes(L[j])}
         IN  Occurrences(e.topics, "x") = 1 =>
               IF U = {}
               THEN N = L /\ subscriptions' = subscriptions
               ELSE LET p == MinOf(U)
                    IN  /\ Len(N) >= p
                        /\ SubSeq(N, 1, p) = SubSeq(L, 1, p)
                        /\ IF Len(L) >= p + 2
                           THEN Len(N) >= p + 1 /\ N[p + 1] = L[p + 2]
                           ELSE Len(N) = p
                        /\ <<"x", L[p]>> \in unsubscribed'[s]
                        /\ Len(subscriptions'[s]["x"]) < Len(L)
      ]_vars

\* an entry on x has just been added while cb3 and then cb1 were registered
\* for x: cb3 was called and took itself out, cb1 is still registered and
\* was not called
C39_Witness ==
    /\ last.op = "add" /\ last.raised = ""
    /\ heap[entries["A"][last.id]].topics = <<"x">>
    /\ [k \in 1..Len(last.notified) |-> last.notified[k].callback] = <<"cb3">>
    /\ subscriptions["A"]["x"] = <<"cb1">>
    /\ <<"x", "cb3">> \in unsubscribed["A"]

---------------------------------------------------------------------------
\* Properties of SpecRelated on the passes of get_related.

\* C34: get_related ends on every graph, with cycles and with edges from a
\* node to itself, for every depth: it runs at most depth passes and at
\* most as many as the graph has nodes; the rings the passes find are
\* pairwise disjoint and none holds the origin (a node enters visited once
\* and is in no later ring); every ring but the last is non-empty, and a
\* traversal that ran fewer than depth passes ended on an empty ring; the
\* result is the union of the rings.
C34_RelatedTerminates ==
    last.op = "get_related" =>
        LET rings == last.rings
            n     == Len(rings)
        IN  /\ n <= last.depth
            /\ n <= Cardinality(DOMAIN nodes[last.store])
            /\ \A i \in 1..n : Lower(last.topic) \notin rings[i]
            /\ \A i \in 1..n : \A j \in 1..n : i # j => rings[i] \cap rings[j] = {}
            /\ \A i \in 1..(n - 1) : rings[i] # {}
            /\ (0 < n /\ n < last.depth) => rings[n] = {}
            /\ (n = 0) => (last.depth = 0 \/ Lower(last.topic) \notin DOMAIN nodes[last.store])
            /\ last.result = UNION {rings[i] : i \in 1..n}
            /\ last.result \subseteq DOMAIN nodes[last.store]

\* on the cycle a - b - c with an edge from a to itself, get_related of a
\* with depth 3 found b and c in its first pass and nothing in its second,
\* and ran no third
C34_Witness ==
    /\ last.op = "get_related"
    /\ last.topic = "a"
    /\ last.depth = 3
    /\ last.rings = <<{"b", "c"}, {}>>
    /\ Joining("A", "a", "a") # {}
    /\ Joining("A", "b", "c") # {}

---------------------------------------------------------------------------
\* SpecExpiry: one store adds entries with expires_in_days left out, 0 and
\* 1, and removes the expired ones as time passes.

DoAddDays ==
    \E content \in {"c1", " c2 "}, expires_in_days \in {None, 0, 1} :
        /\ Add("A", content, "FACT", <<"a">>, 8, expires_in_days, <<>>, EmptyMap)
        /\ Bounded'

NextExpiry ==
    \/ TickLate
    \/ DoAddDays
    \/ DoCleanupExpired

SpecExpiry == Init /\ [][NextExpiry]_vars

\* C40: an add with expires_in_days = 0 creates an entry without expiry,
\* the very entry the add creates when expires_in_days is left out; an add
\* with a number of days d other than 0 sets expires to the instant of
\* creation plus d days.  An entry without expiry is not expired and
\* cleanup_expired leaves it in the store.
C40_ZeroDaysMeansNoExpiry ==
    [][\A s \in Stores :
         /\ Added(s) =>
              LET e == heap'[entries'[s][last'.id]]
              IN  /\ last'.expires_in_days \in {None, 0} =>
                        /\ e.expires = None
                        /\ e = KnowledgeEntry(Strip(last'.content), Agent(s), "FACT", <<"a">>,
                                              last'.confidence, None, <<>>, EmptyMap,
                                              NoId, None, None, now)
                        /\ ~IsExpired(e, now + MaxLate)
                  /\ last'.expires_in_days \notin {None, 0} =>
                        e.expires = e.created + last'.expires_in_days * TicksPerDay
         /\ (last'.op = "cleanup_expired" /\ last'.store = s) =>
              \A id \in DOMAIN entries[s] :
                  Entry(s, id).expires = None => id \in DOMAIN entries'[s]
      ]_vars

\* at the latest instant an entry has just been added with expires_in_days
\* = 0 next to one added earlier with one day to live: it has no expiry
C40_Witness ==
    /\ last.op = "add" /\ last.raised = ""
    /\ last.expires_in_days = 0
    /\ now = MaxLate
    /\ heap[entries["A"][last.id]].expires = None
    /\ \E id \in DOMAIN entries["A"] : IsExpired(heap[entries["A"][id]], now)

---------------------------------------------------------------------------
\* SpecConf: two stores add an entry and update it with confidences below
\* 0, within range and above 1, and merge in both forms.

Confidences == {0 - 3, 4, 12}

DoAddConf ==
    \E confidence \in Confidences :
        /\ Add("A", "c1", "FACT", <<>>, confidence, None, <<>>, EmptyMap)
        /\ Bounded'

DoSetConf ==
    \E s \in Peers : \E id \in DOMAIN entries[s] : \E confidence \in Confidences :
        Update(s, id, [confidence |-> confidence])

NextConf ==
    \/ Tick
    \/ DoAddConf
    \/ DoSetConf
    \/ DoSync
    \/ DoImport

SpecConf == Init /\ [][NextConf]_vars

\* C31: after every add, update, sync and import_from_sync the confidence
\* of every entry of every store lies between 0 and 1; the entry an add
\* creates has the confidence given, brought into that range, and so has
\* the entry an update with a confidence changes.
C31_ConfidenceClamped ==
    [][/\ \A s \in Stores : \A id \in DOMAIN entries'[s] :
             /\ heap'[entries'[s][id]].confidence >= 0
             /\ heap'[entries'[s][id]].confidence <= ConfMax
       /\ \A s \in Stores :
             Added(s) =>
                heap'[entries'[s][last'.id]].confidence =
                   (IF last'.confidence < 0 THEN 0
                    ELSE IF last'.confidence > ConfMax THEN ConfMax
                    ELSE last'.confidence)
       /\ (last'.op = "update" /\ last'.found /\ "confidence" \in DOMAIN last'.args) =>
             heap'[entries'[last'.store][last'.id]].confidence =
                (IF last'.args.confidence < 0 THEN 0
                 ELSE IF last'.args.confidence > ConfMax THEN ConfMax
                 ELSE last'.args.confidence)
      ]_vars

\* store B has just set the confidence of an entry it took from store A
\* with a value below 0: the entry has the confidence 0, and store A holds
\* an entry whose confidence is 1, from a value above 1
C31_Witness ==
    /\ last.op = "update" /\ last.found /\ last.store = "B"
    /\ last.args.confidence < 0
    /\ heap[entries["B"][last.id]].confidence = 0
    /\ \E id \in DOMAIN entries["A"] : heap[entries["A"][id]].confidence = ConfMax

---------------------------------------------------------------------------
\* SpecAlias: store B writes an entry, without topics, and changes it;
\* store A takes it by sync and by import_from_sync of the export of B that
\* export_for_sync has just returned, as the tests do.

DoAddMeta ==
    \E metadata \in {EmptyMap, [k1 |-> "v1"]} :
        /\ entries["B"] = EmptyMap
        /\ Add("B", "c1", "FACT", <<>>, 8, None, <<>>, metadata)
        /\ Bounded'

DoImportLive ==
    ImportFromSync("A", ExportLive("B", now)) /\ Bounded'

DoUpdateMeta ==
    \E id \in DOMAIN entries["B"] :
        \E upd \in {[content |-> "c2"], [metadata |-> [k2 |-> "v2"]]} :
            Update("B", id, upd)

NextAlias ==
    \/ Tick
    \/ DoAddMeta
    \/ DoImportLive
    \/ DoSyncTopics
    \/ DoUpdateMeta

SpecAlias == Init /\ [][NextAlias]_vars

\* C36: A.sync(B) leaves A with the very object of B under every id it
\* added or overwrote; a later update in B shows in A under an id where A
\* holds the object of B, and leaves the entry of A as it was under an id
\* where A holds an object of its own, built by import_from_sync.
C36_SyncSharesImportCopies ==
    [][/\ IsSync("A", "B") =>
             \A id \in DOMAIN entries["B"] :
                 (id \notin DOMAIN entries["A"]
                    \/ Entry("B", id).updated > Entry("A", id).updated) =>
                    entries'["A"][id] = entries'["B"][id]
       /\ (/\ last'.op = "update" /\ last'.store = "B" /\ last'.found
           /\ last'.id \in DOMAIN entries["A"]) =>
                   IF entries["A"][last'.id] = entries["B"][last'.id]
                   THEN heap'[entries'["A"][last'.id]] = heap'[entries'["B"][last'.id]]
                   ELSE heap'[entries'["A"][last'.id]] = Entry("A", last'.id)
      ]_vars

====
